---- MODULE Spec2Model ----
(***************************************************************************)
(* Model of sidekickAI: index lifecycle, retrieval, agent graph and UI.    *)
(*                                                                         *)
(*   Spec           the index lifecycle of Sidekick (src/core/sidekick.py) *)
(*                  driving IndexingService and RetrievalService, run by   *)
(*                  one caller at a time                                   *)
(*   SpecRetrieval  the RetrievalService API called directly               *)
(*                  (src/services/retrieval_service.py); SpecRegistry is   *)
(*                  its calls that write the registry                      *)
(*   SpecGraph      one run of the agent graph (src/core/graph.py);        *)
(*                  FairGraph adds that the run goes on while it can       *)
(*   SpecChat       the chat handlers (src/ui/handlers.py,                 *)
(*                  src/ui/ui_controller.py) over their session stores     *)
(*   SpecSingleton  the lazy initialisers (src/ui/ui_runtime.py,           *)
(*                  src/ui/gradio_wrappers.py, src/ui/ui_core.py)          *)
(*   SpecDelete     delete_dir_verified (src/utils/fs_utils.py);           *)
(*                  FairDelete adds that a call takes its next step        *)
(*   SpecRun        Sidekick.run up to graph.ainvoke                       *)
(*   SpecThread     Sidekick.run from the thread_id on, with the           *)
(*                  checkpointer                                           *)
(*   SpecKey        the index key of a path                                *)
(*   SpecIndexing   index_directory calls in worker threads                *)
(*   SpecFolder     concurrent runs and the active folder of the           *)
(*                  RetrievalService                                       *)
(*   SpecReindex    a forced reindex step by step, in                      *)
(*                  src/core/sidekick.py and in src/sidekick.py            *)
(*   SpecSession    the folder list of a user (src/ui/ui_controller.py)    *)
(*                  over SessionService and SessionRepository              *)
(*                                                                         *)
(* Environment assumptions of the model.  Reading the manifest file and    *)
(* building a retriever from an open store succeed.  What can fail is what *)
(* the code guards and the design discusses: writing the manifest file, a  *)
(* recursive delete of a store directory (locked files), the creation of a *)
(* store, the splitting into chunks, the loading of a persisted store and  *)
(* a retriever query.  The user's files are not under the program's        *)
(* control: each call finds at the path it is given whatever kind of thing *)
(* the file system holds at that moment (env.kind).                        *)
(***************************************************************************)
EXTENDS Integers, Sequences, FiniteSets, TLC

VARIABLES
    disk,               \* persist locations that exist under VECTORSTORE_ROOT
    corrupt,            \* the existing persist locations that do not load
    manifest,           \* index_manifest.json: ordered dict key -> persist_dir
    retriever_registry, \* RetrievalService.retriever_registry (ordered dict)
    vectorstore_paths,  \* RetrievalService.vectorstore_paths (ordered dict)
    current_folder,     \* RetrievalService.current_folder
    default_k,          \* RetrievalService.default_k
    nextDir,            \* next unused persist-location name (uuid suffix)
    last,               \* the last call and what it returned
    answer,             \* the last RetrievalService answer (get/search)
    node,               \* agent graph: the node that runs next
    messages,           \* SidekickState.messages of the run
    criteria_met,       \* SidekickState.criteria_met
    needs_user_input,   \* SidekickState.needs_user_input
    step,               \* agent graph: node executions of the run so far
    worker_llm,         \* the worker LLM: its script and its invocations
    evaluator_llm,      \* the evaluator LLM: its script and its invocations
    result,             \* what the run returned or raised
    state_class,        \* the SidekickState class the graph is built over
    evaluation_history, \* SidekickState.evaluation_history (when a field)
    handler_sessions,   \* ui/handlers.py UIHandlers.sessions (cache)
    handler_db,         \* the sessions table of repositories/session_repository
    service_sessions,   \* SessionService.sessions (cache)
    service_db,         \* the sessions table of db/session_repository
    chat_last,          \* the last chat call and what it returned
    rt_controller,      \* ui_runtime._controller
    rt_lock,            \* ui_runtime._lock: the caller holding it, or 0
    ui_sidekick,        \* gradio_wrappers.sidekick / ui_core.sidekick
    ui_handlers,        \* gradio_wrappers.handlers / ui_core.handlers
    ui_init_lock,       \* _init_lock: the caller holding it, or 0
    callers,            \* the coroutines calling the two initialisers
    init_calls,         \* init_sidekick: calls started and calls completed
    dir_exists,         \* os.path.exists(dir_abs)
    dir_files,          \* the files of the directory: plain, readonly, locked
    deletion,           \* the running call of delete_dir_verified
    agent,              \* Sidekick.graph, Sidekick.tools, Sidekick.all_tools
    runs,               \* the coroutines calling Sidekick.run
    memory,             \* Sidekick.memory (MemorySaver): thread_id -> messages
    threads,            \* the thread_id of every graph invocation so far
    invoke,             \* the running graph.ainvoke of Sidekick.run
    fs_kind,            \* the file system: what is at each absolute path
    key_calls,          \* the last two computations of an index key
    indexers,           \* the worker threads running index_directory
    searchers,          \* the coroutines running Sidekick.run with a folder
    reindex,            \* a call of index_directory / load_and_register_directory
    global_session,     \* SessionService.sessions[(username, "__global__")]
    global_row,         \* the sessions row of (username, "__global__")
    states_made,        \* the SidekickState objects constructed so far
    session_last        \* the last call of the folder API and its result

sidekickVars ==
    <<disk, corrupt, manifest, retriever_registry, vectorstore_paths,
      current_folder, default_k, nextDir, last, answer>>

graphVars ==
    <<node, messages, criteria_met, needs_user_input, step, worker_llm,
      evaluator_llm, result, state_class, evaluation_history>>

chatVars ==
    <<handler_sessions, handler_db, service_sessions, service_db, chat_last>>

singletonVars ==
    <<rt_controller, rt_lock, ui_sidekick, ui_handlers, ui_init_lock, callers,
      init_calls>>

deleteVars == <<dir_exists, dir_files, deletion>>

runVars == <<agent, runs>>

threadVars == <<memory, threads, invoke>>

keyVars == <<fs_kind, key_calls>>

indexerVars == <<indexers>>

searcherVars == <<searchers>>

extVars == <<threadVars, keyVars, indexerVars, searcherVars>>

sessionVars == <<global_session, global_row, states_made, session_last>>

otherVars == <<reindex, sessionVars>>

uiVars == <<chatVars, singletonVars, deleteVars, runVars, extVars, otherVars>>

vars == <<sidekickVars, graphVars, uiVars>>

----------------------------------------------------------------------------
(* Bounds.                                                                 *)

MaxStores == 2
MaxDocs == 2
MaxCalls == 2
MaxScript == 2
MaxTurns == 2
MaxCallers == 2
MaxRetries == 3

----------------------------------------------------------------------------
(* Values.                                                                 *)

NoKey == "None"
NoDir == 0
NoRetriever == [store |-> 0]
Dirs == 1..MaxStores

CWD == "/a"
AbsPaths == {"/a", "/b"}
RawPaths == {"", "/a/", "/b"}
RelPaths == {"FILE::/a"}
FsKinds == {"missing", "file", "dir_empty", "dir_docs"}

(* Python truthiness of an Optional[str] / Optional[object] value.         *)
TruthyStr(s) == s /= NoKey /\ s /= ""
TruthyDir(d) == d /= NoDir
TruthyRetriever(r) == r /= NoRetriever

----------------------------------------------------------------------------
(* Python dicts, which keep insertion order: a sequence of [k, v] entries  *)
(* with pairwise different keys.                                           *)

DictHas(d, key) == \E i \in 1..Len(d) : d[i].k = key
DictIdx(d, key) == CHOOSE i \in 1..Len(d) : d[i].k = key
DictGet(d, key, dflt) == IF DictHas(d, key) THEN d[DictIdx(d, key)].v ELSE dflt
DictSet(d, key, val) ==
    IF DictHas(d, key)
    THEN [d EXCEPT ![DictIdx(d, key)] = [k |-> key, v |-> val]]
    ELSE Append(d, [k |-> key, v |-> val])
DictPop(d, key) == SelectSeq(d, LAMBDA e : e.k /= key)
DictKeys(d) == {d[i].k : i \in 1..Len(d)}
DictValues(d) == {d[i].v : i \in 1..Len(d)}

----------------------------------------------------------------------------
(* src/utils/path_utils.py                                                 *)

normalize_path(path) ==
    CASE path = "" -> ""
      [] path = "/a/" -> "/a"
      [] OTHER -> path

get_absolute_path(path) ==
    LET n == normalize_path(path)
    IN  IF n = "" \/ n = "." THEN CWD
        ELSE IF n \in RelPaths THEN CWD \o "/" \o n
        ELSE n

(* validate_directory testing os.path.exists alone.                        *)
validate_directory_exists(directory, kind) ==
    /\ directory /= ""
    /\ kind /= "missing"

(* kind: what os.path.exists / os.path.isdir find at the normalized path.  *)
validate_directory(directory, kind) ==
    /\ directory /= ""
    /\ kind \in {"dir_empty", "dir_docs"}

----------------------------------------------------------------------------
(* src/services/retrieval_service.py: the registry.  Each operator takes   *)
(* and returns the service's fields as a record S with at least the fields *)
(* reg (retriever_registry) and paths (vectorstore_paths).                 *)

(* A registration that keeps the prior registration of the key.            *)
register_retriever_first_wins(S, folder_path, retriever, persist_dir) ==
    IF DictHas(S.reg, folder_path) THEN S
    ELSE [S EXCEPT !.reg = Append(S.reg, [k |-> folder_path, v |-> retriever]),
                   !.paths = Append(S.paths,
                                    [k |-> folder_path, v |-> persist_dir])]

register_retriever(S, folder_path, retriever, persist_dir) ==
    [S EXCEPT !.reg = DictSet(S.reg, folder_path, retriever),
              !.paths = DictSet(S.paths, folder_path, persist_dir)]

unregister_retriever(S, folder_path) ==
    [S EXCEPT !.reg = DictPop(S.reg, folder_path),
              !.paths = DictPop(S.paths, folder_path)]

unregister_result(S, folder_path) == DictGet(S.paths, folder_path, NoDir)

has_retriever(S, folder_path) == DictHas(S.reg, folder_path)

----------------------------------------------------------------------------
(* src/services/indexing_service.py: stores on disk.  S also has the       *)
(* fields disk, corrupt and nextDir.                                       *)

RmOutcomes == {"deleted", "locked", "partial"}

(* shutil.rmtree(d): it deletes the directory, or it raises having deleted *)
(* nothing ("locked") or part of the content ("partial").                  *)
rmtree(S, d, outcome) ==
    CASE outcome = "deleted" ->
            [S EXCEPT !.disk = @ \ {d}, !.corrupt = @ \ {d}]
      [] outcome = "locked" -> S
      [] OTHER -> [S EXCEPT !.corrupt = @ \cup {d}]

remove_vectorstore(S, persist_dir, outcome) ==
    IF persist_dir \in S.disk THEN rmtree(S, persist_dir, outcome) ELSE S

remove_vectorstore_result(S, persist_dir, outcome) ==
    persist_dir \in S.disk /\ outcome = "deleted"

(* load_documents returning a non-empty list for a directory without      *)
(* supported files.                                                        *)
load_documents_never_empty(kind) == 1

(* The number of documents load_documents returns for a directory.         *)
load_documents(kind) ==
    IF kind = "dir_docs" THEN 1 ELSE 0

(* create_vectorstore: a fresh location is made; when Chroma fails the     *)
(* location is removed if the clean-up rmtree does not raise as well.      *)
create_vectorstore(S, create_ok, cleanup) ==
    LET d == S.nextDir
        made == [S EXCEPT !.disk = @ \cup {d}, !.nextDir = @ + 1]
    IN  IF create_ok
        THEN made
        ELSE rmtree([made EXCEPT !.corrupt = @ \cup {d}], d, cleanup)

create_vectorstore_result(S, create_ok) ==
    IF create_ok THEN S.nextDir ELSE NoDir

load_vectorstore(S, persist_dir) ==
    persist_dir \in S.disk /\ persist_dir \notin S.corrupt

(* vectorstore.as_retriever(): the retriever object over the store.  A     *)
(* process builds at most one retriever over a store (a created store is   *)
(* new, a manifest names a store once), so the store identifies the        *)
(* object among the objects of one process.                                *)
as_retriever(persist_dir) == [store |-> persist_dir]

----------------------------------------------------------------------------
(* src/core/sidekick.py: the index lifecycle.                              *)

SEARCH_K == 15
DEFAULT_K == 5

(* The fields an indexing call reads and writes.                           *)
Here ==
    [reg |-> retriever_registry, paths |-> vectorstore_paths,
     manifest |-> manifest, disk |-> disk, corrupt |-> corrupt,
     nextDir |-> nextDir]

(* What a call returns: the fields after it, its status string, the store  *)
(* it created (new) and the persist location it unregistered (old).        *)
Ret(S, status, new, old) ==
    [S |-> S, status |-> status, new |-> new, old |-> old]

(* What the environment does to one indexing call: the kind of thing at    *)
(* the path, whether chunking and store creation succeed, and how the      *)
(* rmtree of the old store and of a failed new store end.  Only the        *)
(* outcomes a call can get to are told apart.                              *)
Env(kind, chunk_ok, create_ok, rm_old, cleanup) ==
    [kind |-> kind, chunk_ok |-> chunk_ok, create_ok |-> create_ok,
     rm_old |-> rm_old, cleanup |-> cleanup, manifest_io |-> "ok"]

(* Writing index_manifest.json: it succeeds, or it fails and               *)
(* _save_index_manifest prints a warning and returns.                      *)
ManifestIO == {"ok", "save_fails"}

IndexEnvs(force_reindex) ==
    LET Rm == IF force_reindex THEN RmOutcomes ELSE {"deleted"}
    IN  {Env(kind, TRUE, TRUE, "deleted", "deleted") : kind \in {"missing", "file"}}
        \cup {Env("dir_empty", TRUE, TRUE, rm, "deleted") : rm \in Rm}
        \cup {Env("dir_docs", FALSE, TRUE, rm, "deleted") : rm \in Rm}
        \cup {Env("dir_docs", TRUE, FALSE, rm, c) :
                  rm \in Rm, c \in {"deleted", "partial"}}
        \cup {[Env("dir_docs", TRUE, TRUE, rm, "deleted")
                   EXCEPT !.manifest_io = io] : rm \in Rm, io \in ManifestIO}

(* _load_index_manifest / manifest[key] = dir / _save_index_manifest       *)
manifest_put(S, folder_key, persist_dir, io) ==
    IF io = "save_fails"
    THEN S
    ELSE [S EXCEPT !.manifest = DictSet(S.manifest, folder_key, persist_dir)]

(* remove_directory, lines 241-245: the key is popped and the file written *)
(* when the loaded manifest has the key.                                   *)
manifest_pop(S, folder_key, io) ==
    IF io = "ok"
    THEN [S EXCEPT !.manifest = DictPop(S.manifest, folder_key)]
    ELSE S

(* index_directory, lines 183-187: a forced reindex clears the old data.   *)
clear_old_data(S, folder_key, outcome) ==
    LET persist_dir == unregister_result(S, folder_key)
        S1 == unregister_retriever(S, folder_key)
    IN  IF TruthyDir(persist_dir)
        THEN remove_vectorstore(S1, persist_dir, outcome)
        ELSE S1

(* index_directory, lines 215-225.                                         *)
register_and_record(S, folder_key, persist_dir, io) ==
    manifest_put(
        register_retriever(S, folder_key, as_retriever(persist_dir),
                           persist_dir),
        folder_key, persist_dir, io)

(* index_directory, line 180, with the "not" lost.                         *)
already_indexed_forced(S, folder_key, force_reindex) ==
    has_retriever(S, folder_key) /\ force_reindex

(* index_directory, line 180.                                              *)
already_indexed(S, folder_key, force_reindex) ==
    has_retriever(S, folder_key) /\ ~force_reindex

index_directory(S, directory, force_reindex, env) ==
    LET dir == normalize_path(directory)
        folder_key == get_absolute_path(dir)
    IN  IF ~validate_directory(dir, env.kind)
        THEN Ret(S, "ERROR_INVALID_DIRECTORY", NoDir, NoDir)
        ELSE IF already_indexed(S, folder_key, force_reindex)
        THEN Ret(S, "INFO_ALREADY_INDEXED", NoDir, NoDir)
        ELSE
          LET old == IF force_reindex THEN unregister_result(S, folder_key) ELSE NoDir
              S1 == IF force_reindex
                    THEN clear_old_data(S, folder_key, env.rm_old)
                    ELSE S
          IN  IF load_documents(env.kind) = 0
              THEN Ret(S1, "NO_READABLE_DOCUMENTS", NoDir, old)
              ELSE IF ~env.chunk_ok
              THEN Ret(S1, "ERROR_CHUNK_SPLITTING", NoDir, old)
              ELSE
                LET persist_dir == create_vectorstore_result(S1, env.create_ok)
                    S2 == create_vectorstore(S1, env.create_ok, env.cleanup)
                IN  IF ~TruthyDir(persist_dir)
                    THEN Ret(S2, "ERROR_CREATE_VECTORSTORE", S1.nextDir, old)
                    ELSE Ret(register_and_record(S2, folder_key, persist_dir,
                                                 env.manifest_io),
                             "OK_INDEXED", persist_dir, old)

remove_directory(S, directory, outcome, io) ==
    LET dir == normalize_path(directory)
        folder_key == get_absolute_path(dir)
        persist_dir == unregister_result(S, folder_key)
        S1 == unregister_retriever(S, folder_key)
        S2 == IF TruthyDir(persist_dir)
              THEN remove_vectorstore(S1, persist_dir, outcome)
              ELSE S1
    IN  Ret(manifest_pop(S2, folder_key, io), "REMOVED_FOLDER_INDEX", NoDir,
            persist_dir)

(* The bootstrap loop with "break" for "continue".                         *)
RECURSIVE bootstrap_break(_, _)
bootstrap_break(S, i) ==
    IF i > Len(S.manifest)
    THEN S
    ELSE LET folder_key == S.manifest[i].k
             persist_dir == S.manifest[i].v
         IN  IF ~load_vectorstore(S, persist_dir)
             THEN S
             ELSE bootstrap_break(
                    register_retriever(S, folder_key, as_retriever(persist_dir),
                                       persist_dir),
                    i + 1)

(* _bootstrap_retrievers_from_manifest: the loop over manifest.items(),    *)
(* from entry i on.                                                        *)
RECURSIVE bootstrap_from(_, _)
bootstrap_from(S, i) ==
    IF i > Len(S.manifest)
    THEN S
    ELSE LET folder_key == S.manifest[i].k
             persist_dir == S.manifest[i].v
         IN  IF ~load_vectorstore(S, persist_dir)
             THEN bootstrap_from(S, i + 1)
             ELSE bootstrap_from(
                    register_retriever(S, folder_key, as_retriever(persist_dir),
                                       persist_dir),
                    i + 1)

(* cleanup: remove_vectorstore of every registered location, in the order  *)
(* of vectorstore_paths.values(), then RetrievalService.clear().           *)
RECURSIVE cleanup_from(_, _, _)
cleanup_from(S, i, rm) ==
    IF i > Len(S.paths)
    THEN [S EXCEPT !.reg = <<>>, !.paths = <<>>]
    ELSE cleanup_from(remove_vectorstore(S, S.paths[i].v, rm[S.paths[i].v]), i + 1, rm)

----------------------------------------------------------------------------
(* The index lifecycle as a state machine.                                 *)

Call(op, path, force, status, old) ==
    [op |-> op, path |-> path, force |-> force, status |-> status, old |-> old]

NoAnswer == [op |-> "none"]

SidekickInit ==
    /\ disk = {}
    /\ corrupt = {}
    /\ manifest = <<>>
    /\ retriever_registry = <<>>
    /\ vectorstore_paths = <<>>
    /\ current_folder = NoKey
    /\ default_k = DEFAULT_K
    /\ nextDir = 1
    /\ last = Call("init", "", FALSE, "", NoDir)
    /\ answer = NoAnswer

(* No run of the agent graph has been started.                             *)
GraphIdle ==
    /\ node = "IDLE"
    /\ messages = <<>>
    /\ criteria_met = FALSE
    /\ needs_user_input = FALSE
    /\ step = 0
    /\ worker_llm = [script |-> <<0>>, content |-> [mark |-> FALSE, text |-> ""],
                     calls |-> 0]
    /\ evaluator_llm = [at |-> 0, met |-> FALSE, needs |-> FALSE, calls |-> 0]
    /\ result = [kind |-> "none", content |-> [mark |-> FALSE, text |-> ""]]
    /\ state_class = "src.core.state"
    /\ evaluation_history = <<>>

(* No chat turn has been made: the caches and the tables are empty.        *)
NoChat ==
    [handler |-> "none", username |-> "", key |-> "", prompt |-> "",
     failed |-> FALSE, escaped |-> FALSE, before |-> <<>>, returned |-> <<>>,
     text |-> "", enabled_tools |-> <<>>, was |-> <<>>, stored |-> <<>>]

ChatInit ==
    /\ handler_sessions = <<>>
    /\ handler_db = <<>>
    /\ service_sessions = <<>>
    /\ service_db = <<>>
    /\ chat_last = NoChat

(* Module import of ui_runtime, gradio_wrappers and ui_core: the globals    *)
(* are None and the locks are free; no coroutine has called yet.           *)
None == 0
Callers == 1..MaxCallers
(* What a caller has got: nothing yet (None), an object, or an exception.  *)
Raised == -1
IdleCaller == [fn |-> "none", pc |-> "idle", got |-> None, waited |-> FALSE]

SingletonInit ==
    /\ rt_controller = None
    /\ rt_lock = 0
    /\ ui_sidekick = None
    /\ ui_handlers = None
    /\ ui_init_lock = 0
    /\ callers = [p \in Callers |-> IdleCaller]
    /\ init_calls = [fn \in {"get_controller", "ensure_initialized"} |->
                       [started |-> 0, completed |-> 0]]

(* No call of delete_dir_verified is running; the directory exists.        *)
NoDeletion ==
    [pc |-> "idle", retries |-> 0, attempt |-> 0, last_err |-> NoKey,
     existed |-> FALSE, rmtree_calls |-> 0, force_calls |-> 0,
     failed_attempts |-> 0, ret |-> <<FALSE, NoKey>>]

DeleteInit ==
    /\ dir_exists = TRUE
    /\ dir_files = "plain"
    /\ deletion = NoDeletion

(* Sidekick.__init__, lines 59-64: no graph, no tools.                     *)
NoGraph == [built |-> FALSE, tools |-> {}]
IdleRun ==
    [pc |-> "idle", enabled_tools |-> [none |-> TRUE, groups |-> {}],
     graph |-> NoGraph, outcome |-> "none"]

RunInit ==
    /\ agent = [graph |-> NoGraph, tools |-> {}, all_tools |-> {}]
    /\ runs = [p \in Callers |-> IdleRun]

NoInvoke ==
    [pc |-> "idle", thread_id |-> None, passed |-> <<>>, started |-> <<>>]

ThreadInit ==
    /\ memory = <<>>
    /\ threads = <<>>
    /\ invoke = NoInvoke

KeyPaths == RawPaths \cup RelPaths \cup {"/a"}
KeyAbsPaths == {get_absolute_path(p) : p \in KeyPaths}

KeyInit ==
    /\ fs_kind = [p \in KeyAbsPaths |-> "missing"]
    /\ key_calls = <<>>

IdleIndexer ==
    [pc |-> "idle", key |-> NoKey, force |-> FALSE, persist_dir |-> NoDir,
     loaded |-> <<>>, status |-> ""]

IndexerInit == indexers = [p \in Callers |-> IdleIndexer]

NoQuery == [queried |-> NoRetriever, registered |-> NoRetriever]

IdleSearcher ==
    [pc |-> "idle", folder |-> NoKey, rag_enabled |-> FALSE, query |-> NoQuery]

SearcherInit == searchers = [p \in Callers |-> IdleSearcher]

ExtInit == ThreadInit /\ KeyInit /\ IndexerInit /\ SearcherInit

(* No call is running on the Sidekick under test, which has indexed        *)
(* nothing.                                                                *)
NoReindex ==
    [impl |-> "none", pc |-> "idle", key |-> NoKey, force |-> FALSE,
     was |-> FALSE, prev |-> NoDir, new |-> NoDir, log |-> <<>>,
     S |-> [reg |-> <<>>, paths |-> <<>>, manifest |-> <<>>, disk |-> {},
            corrupt |-> {}, nextDir |-> 1]]

ReindexInit == reindex = NoReindex

(* No SidekickState has been constructed, the sessions table has no row    *)
(* of the user.  A state is known by the uuid of its construction.         *)
NoState ==
    [thread_id |-> 0, session_id |-> 0, indexed_directories |-> <<>>,
     current_directory |-> NoKey]

NoRow ==
    [session_id |-> 0, indexed_directories |-> <<>>,
     current_directory |-> NoKey]

NoSessionCall ==
    [op |-> "none", folder |-> NoKey, status |-> "", returned |-> <<>>,
     before |-> <<>>, saved_thread |-> 0]

SessionInit ==
    /\ global_session = NoState
    /\ global_row = NoRow
    /\ states_made = 0
    /\ session_last = NoSessionCall

OtherInit == ReindexInit /\ SessionInit

UiInit ==
    ChatInit /\ SingletonInit /\ DeleteInit /\ RunInit /\ ExtInit /\ OtherInit

Init == SidekickInit /\ GraphIdle /\ UiInit

Install(S) ==
    /\ retriever_registry' = S.reg
    /\ vectorstore_paths' = S.paths
    /\ manifest' = S.manifest
    /\ disk' = S.disk
    /\ corrupt' = S.corrupt
    /\ nextDir' = S.nextDir
    /\ UNCHANGED <<graphVars, uiVars>>

IndexDirectory(directory, force_reindex, env) ==
    LET r == index_directory(Here, directory, force_reindex, env)
    IN  /\ r.S.nextDir <= MaxStores + 1
        /\ Install(r.S)
        /\ last' = Call("index", directory, force_reindex, r.status, r.old)
        /\ UNCHANGED <<current_folder, default_k, answer>>

RemoveDirectory(directory, outcome, io) ==
    LET r == remove_directory(Here, directory, outcome, io)
    IN  /\ Install(r.S)
        /\ last' = Call("remove", directory, FALSE, r.status, r.old)
        /\ UNCHANGED <<current_folder, default_k, answer>>

Cleanup(rm) ==
    /\ Install(cleanup_from(Here, 1, rm))
    /\ current_folder' = NoKey
    /\ last' = Call("cleanup", "", FALSE, "", NoDir)
    /\ UNCHANGED <<default_k, answer>>

(* The process ends and a new Sidekick is constructed: __init__ makes an   *)
(* empty RetrievalService and bootstraps it from the manifest.             *)
Restart ==
    /\ Install(bootstrap_from([Here EXCEPT !.reg = <<>>, !.paths = <<>>], 1))
    /\ current_folder' = NoKey
    /\ default_k' = DEFAULT_K
    /\ last' = Call("bootstrap", "", FALSE, "", NoDir)
    /\ UNCHANGED answer

Next ==
    \/ \E directory \in RawPaths, force_reindex \in BOOLEAN :
          \E env \in IndexEnvs(force_reindex) :
              IndexDirectory(directory, force_reindex, env)
    \/ \E directory \in RawPaths, outcome \in RmOutcomes, io \in ManifestIO :
          RemoveDirectory(directory, outcome, io)
    \/ \E rm \in [DictValues(vectorstore_paths) -> RmOutcomes] : Cleanup(rm)
    \/ Restart

Spec == Init /\ [][Next]_vars

----------------------------------------------------------------------------
(* src/services/retrieval_service.py: get_retriever and search.            *)

TRUNC == 500

(* A string: the first len characters of the text named txt.  A prefix of  *)
(* a text is known by its length.                                          *)
Text(txt, len) == [txt |-> txt, len |-> len]

(* Python's s[:k] on a string, k >= 0.                                     *)
Prefix(s, k) == [s EXCEPT !.len = IF k < s.len THEN k ELSE s.len]

(* The documents a retriever can return.  A document has its metadata's    *)
(* file_name (NoKey: the metadata has none) and its page_content.          *)
Doc(file_name, page_content) ==
    [file_name |-> file_name, page_content |-> page_content]

DocPool ==
    {Doc("a.txt", Text("ta", TRUNC + 1)), Doc("b.md", Text("tb", TRUNC)),
     Doc(NoKey, Text("tc", 0))}

(* The sequences of at most n different documents of the pool.            *)
RECURSIVE SeqsNoRepeat(_, _)
SeqsNoRepeat(pool, n) ==
    IF n = 0
    THEN {<<>>}
    ELSE {<<>>} \cup
         UNION {{<<d>> \o rest : rest \in SeqsNoRepeat(pool \ {d}, n - 1)} :
                d \in pool}

(* What retriever.invoke(query) does: it raises, or it returns documents   *)
(* in ranked order.                                                        *)
Raises == [raises |-> TRUE, docs |-> <<>>]
Returns(docs) == [raises |-> FALSE, docs |-> docs]
Behaviours ==
    {Raises} \cup
    {Returns(docs) : docs \in SeqsNoRepeat(DocPool, MaxDocs)}

(* The values of k a caller passes: a negative one, zero, one, and as many *)
(* as a retriever returns at most.                                         *)
KValues == {-1, 0, 1, MaxDocs}

(* The fields of the service get_retriever and search read.                *)
Service ==
    [reg |-> retriever_registry, paths |-> vectorstore_paths,
     current |-> current_folder]

(* get_retriever with the current folder tried before the argument.       *)
get_retriever_current_first(S, folder_path) ==
    IF TruthyStr(S.current) /\ DictHas(S.reg, S.current)
    THEN DictGet(S.reg, S.current, NoRetriever)
    ELSE IF TruthyStr(folder_path)
    THEN DictGet(S.reg, folder_path, NoRetriever)
    ELSE IF Len(S.reg) > 0
    THEN S.reg[1].v
    ELSE NoRetriever

get_retriever(S, folder_path) ==
    IF TruthyStr(folder_path)
    THEN DictGet(S.reg, folder_path, NoRetriever)
    ELSE IF TruthyStr(S.current) /\ DictHas(S.reg, S.current)
    THEN DictGet(S.reg, S.current, NoRetriever)
    ELSE IF Len(S.reg) > 0
    THEN S.reg[1].v
    ELSE NoRetriever

(* Python's seq[:k] on a list.                                             *)
Slice(seq, k) ==
    LET n == Len(seq)
        stop == IF k >= 0
                THEN (IF k < n THEN k ELSE n)
                ELSE (IF n + k > 0 THEN n + k ELSE 0)
    IN  SubSeq(seq, 1, stop)

(* What a call does: it returns a string, it returns None, or it raises.   *)
(* A string is modelled by the message it is built from and the values     *)
(* formatted into it.                                                      *)
Str(msg, about, results) ==
    [raised |-> FALSE, none |-> FALSE, msg |-> msg, about |-> about,
     results |-> results]
Raise == [raised |-> TRUE, none |-> FALSE, msg |-> "", about |-> NoKey,
          results |-> <<>>]

(* A result formatted without the [:500].                                  *)
format_result_untruncated(i, doc) ==
    [i |-> i,
     fname |-> IF doc.file_name = NoKey THEN "unknown" ELSE doc.file_name,
     content |-> doc.page_content]

(* search, lines 78-81: one formatted result.                              *)
format_result(i, doc) ==
    [i |-> i,
     fname |-> IF doc.file_name = NoKey THEN "unknown" ELSE doc.file_name,
     content |-> Prefix(doc.page_content, TRUNC)]

(* The query and its formatting without the try/except around them.       *)
search_body_unguarded(behaviour, query, k) ==
    IF behaviour.raises
    THEN Raise
    ELSE LET docs == Slice(behaviour.docs, k)
         IN  IF Len(docs) = 0
             THEN Str("NO_RELEVANT_DOCUMENTS", query, <<>>)
             ELSE Str("RESULTS", query,
                      [i \in 1..Len(docs) |-> format_result(i, docs[i])])

(* search, lines 72-86: the query and its formatting, inside try/except.   *)
search_body(behaviour, query, k) ==
    IF behaviour.raises
    THEN Str("SEARCH_ERROR", NoKey, <<>>)
    ELSE LET docs == Slice(behaviour.docs, k)
         IN  IF Len(docs) = 0
             THEN Str("NO_RELEVANT_DOCUMENTS", query, <<>>)
             ELSE Str("RESULTS", query,
                      [i \in 1..Len(docs) |-> format_result(i, docs[i])])

search(S, query, k, folder_path, behaviour) ==
    IF Len(S.reg) = 0
    THEN Str("NO_INDEXED_FOLDER", NoKey, <<>>)
    ELSE IF ~TruthyRetriever(get_retriever(S, folder_path))
    THEN Str("NO_RETRIEVER_FOUND",
             IF TruthyStr(folder_path) THEN folder_path ELSE S.current, <<>>)
    ELSE search_body(behaviour, query, k)

(* src/tools/retrieval_tools.py: the search_documents tool.                *)
search_documents(S, query, k, behaviour) ==
    IF Len(S.reg) = 0
    THEN Str("NO_INDEXED_KNOWLEDGE_BASE", NoKey, <<>>)
    ELSE search(S, query, IF k /= 0 THEN k ELSE default_k, NoKey, behaviour)

----------------------------------------------------------------------------
(* The RetrievalService API as a state machine.                            *)

QUERY == "q"
KeyArgs == AbsPaths \cup {NoKey}

Answer(op, arg, k, n, out) == [op |-> op, arg |-> arg, k |-> k, n |-> n, out |-> out]

RetrievalFrame ==
    UNCHANGED <<disk, corrupt, manifest, nextDir, last, default_k, graphVars,
                uiVars>>

RegisterRetriever(folder_path, persist_dir) ==
    LET S == register_retriever(Service, folder_path, as_retriever(persist_dir),
                                persist_dir)
    IN  /\ retriever_registry' = S.reg
        /\ vectorstore_paths' = S.paths
        /\ answer' = Answer("register", folder_path, 0, 0, NoRetriever)
        /\ UNCHANGED current_folder
        /\ RetrievalFrame

UnregisterRetriever(folder_path) ==
    LET S == unregister_retriever(Service, folder_path)
    IN  /\ retriever_registry' = S.reg
        /\ vectorstore_paths' = S.paths
        /\ answer' = Answer("unregister", folder_path, 0, 0, NoRetriever)
        /\ UNCHANGED current_folder
        /\ RetrievalFrame

SetCurrentFolder(folder_path) ==
    /\ current_folder' = folder_path
    /\ answer' = Answer("set_current", folder_path, 0, 0, NoRetriever)
    /\ UNCHANGED <<retriever_registry, vectorstore_paths>>
    /\ RetrievalFrame

Clear ==
    /\ retriever_registry' = <<>>
    /\ vectorstore_paths' = <<>>
    /\ current_folder' = NoKey
    /\ answer' = Answer("clear", NoKey, 0, 0, NoRetriever)
    /\ RetrievalFrame

GetRetriever(folder_path) ==
    /\ answer' = Answer("get", folder_path, 0, 0, get_retriever(Service, folder_path))
    /\ UNCHANGED <<retriever_registry, vectorstore_paths, current_folder>>
    /\ RetrievalFrame

Search(k, folder_path, behaviour) ==
    /\ answer' = Answer("search", NoKey, k, Len(behaviour.docs),
                        search(Service, QUERY, k, folder_path, behaviour))
    /\ UNCHANGED <<retriever_registry, vectorstore_paths, current_folder>>
    /\ RetrievalFrame

SearchDocuments(k, behaviour) ==
    /\ answer' = Answer("search_documents", NoKey, k, Len(behaviour.docs),
                        search_documents(Service, QUERY, k, behaviour))
    /\ UNCHANGED <<retriever_registry, vectorstore_paths, current_folder>>
    /\ RetrievalFrame

NextRetrieval ==
    \/ \E folder_path \in AbsPaths, persist_dir \in Dirs :
          RegisterRetriever(folder_path, persist_dir)
    \/ \E folder_path \in AbsPaths : UnregisterRetriever(folder_path)
    \/ \E folder_path \in KeyArgs : SetCurrentFolder(folder_path)
    \/ Clear
    \/ \E folder_path \in KeyArgs : GetRetriever(folder_path)
    \/ \E k \in KValues, folder_path \in KeyArgs, behaviour \in Behaviours :
          Search(k, folder_path, behaviour)
    \/ \E k \in KValues, behaviour \in Behaviours : SearchDocuments(k, behaviour)

SpecRetrieval == Init /\ [][NextRetrieval]_vars

(* The registry alone: the calls that write it.                            *)
NextRegistry ==
    \/ \E folder_path \in AbsPaths, persist_dir \in Dirs :
          RegisterRetriever(folder_path, persist_dir)
    \/ \E folder_path \in AbsPaths : UnregisterRetriever(folder_path)
    \/ \E folder_path \in KeyArgs : SetCurrentFolder(folder_path)
    \/ Clear

SpecRegistry == Init /\ [][NextRegistry]_vars

----------------------------------------------------------------------------
(* src/core/graph.py: the agent graph GraphBuilder.build compiles, run by  *)
(* graph.ainvoke.  The two LLMs are scripted: the worker asks for          *)
(* script[t] tool calls at its t-th invocation (the script repeats), the   *)
(* evaluator reports its verdict at its at-th invocation and neither       *)
(* success nor input-needed before (at = 0: it never reports).             *)

(* LangGraph stops a run that has executed recursion_limit node steps      *)
(* without reaching END and raises GraphRecursionError; the config         *)
(* Sidekick.run passes sets no recursion_limit, so the default applies.    *)
RECURSION_LIMIT == 25

(* A message content: its text and whether it starts with the thinking     *)
(* marker.                                                                 *)
Content(mark, text) == [mark |-> mark, text |-> text]

NoCall == <<0, 0>>
HumanMessage(content) ==
    [type |-> "human", content |-> content, tool_calls |-> <<>>,
     tool_call_id |-> NoCall]
AIMessage(content, tool_calls) ==
    [type |-> "ai", content |-> content, tool_calls |-> tool_calls,
     tool_call_id |-> NoCall]
ToolMessage(tool_call_id) ==
    [type |-> "tool", content |-> Content(FALSE, "tool result"),
     tool_calls |-> <<>>, tool_call_id |-> tool_call_id]

(* The scripted LLMs.                                                      *)
WorkerScripts ==
    UNION {[1..n -> 0..MaxCalls] : n \in 1..MaxScript}
WorkerContents == {Content(FALSE, "answer"), Content(TRUE, "answer")}
WorkerLLMs ==
    {[script |-> w, content |-> c, calls |-> 0] :
        w \in WorkerScripts, c \in WorkerContents}
EvaluatorLLMs ==
    {[at |-> 0, met |-> FALSE, needs |-> FALSE, calls |-> 0]} \cup
    {[at |-> e, met |-> v[1], needs |-> v[2], calls |-> 0] :
        e \in 1..MaxScript,
        v \in {<<TRUE, FALSE>>, <<FALSE, TRUE>>, <<TRUE, TRUE>>}}

(* worker_llm.invoke at the invocation after `calls` earlier ones: an      *)
(* assistant message with the scripted number of tool-call requests.       *)
worker_llm_invoke(llm) ==
    LET n == llm.script[(llm.calls % Len(llm.script)) + 1]
    IN  AIMessage(llm.content, [i \in 1..n |-> <<llm.calls + 1, i>>])

(* An evaluator that reports success at every invocation.                  *)
evaluator_llm_always_met(llm) ==
    [success_criteria_met |-> TRUE, user_input_needed |-> FALSE]

(* evaluator_llm.invoke: the structured evaluation.                        *)
evaluator_llm_invoke(llm) ==
    IF llm.calls + 1 = llm.at
    THEN [success_criteria_met |-> llm.met, user_input_needed |-> llm.needs]
    ELSE [success_criteria_met |-> FALSE, user_input_needed |-> FALSE]

(* worker_node: the update {"messages": [response]}.                       *)
worker_node(llm) == <<worker_llm_invoke(llm)>>

(* datetime.now().isoformat() at the evaluator's invocation after `calls`  *)
(* earlier ones: a later invocation reads a later time.                    *)
timestamp(llm) == llm.calls + 1

(* evaluator_node: the update of evaluation_history, criteria_met,         *)
(* needs_user_input and messages.                                          *)
evaluator_node(llm) ==
    LET eval_result == evaluator_llm_invoke(llm)
        eval_dict == [success_criteria_met |-> eval_result.success_criteria_met,
                      user_input_needed |-> eval_result.user_input_needed,
                      timestamp |-> timestamp(llm)]
    IN  [evaluation_history |-> <<eval_dict>>,
         criteria_met |-> eval_result.success_criteria_met,
         needs_user_input |-> eval_result.user_input_needed,
         messages |-> <<AIMessage(Content(TRUE, "Evaluation"), <<>>)>>]

(* The SidekickState classes: src/core/state.py (GraphBuilder's) and       *)
(* src/state.py, and their fields.                                         *)
StateClasses == {"src.core.state", "src.state"}

Fields(class) ==
    {"messages", "thread_id", "session_id", "success_criteria",
     "task_metadata", "current_directory", "indexed_directories",
     "criteria_met", "needs_user_input"}
    \cup (IF class = "src.state" THEN {"evaluation_history"} ELSE {})

(* A graph whose messages field has no reducer.                            *)
channel_without_reducer(class, key, old, update) ==
    IF key \notin Fields(class) THEN old ELSE update

(* StateGraph(SidekickState): what a node's update of one key makes of the *)
(* key's value.  A key that is no field of the class is no channel of the  *)
(* graph and its update is dropped; the field messages is annotated with   *)
(* the reducer add_messages (the new messages have new ids and are         *)
(* appended); a field without a reducer takes the update as its value.     *)
channel(class, key, old, update) ==
    IF key \notin Fields(class) THEN old
    ELSE IF key = "messages" THEN old \o update
    ELSE update

(* A tools node answering the tool calls last to first.                    *)
ToolNode_reversed(msgs) ==
    LET calls == msgs[Len(msgs)].tool_calls
    IN  [i \in 1..Len(calls) |-> ToolMessage(calls[Len(calls) + 1 - i])]

(* langgraph.prebuilt.ToolNode: one tool message per tool call of the last *)
(* message, in the order of the calls.                                     *)
ToolNode(msgs) ==
    LET calls == msgs[Len(msgs)].tool_calls
    IN  [i \in 1..Len(calls) |-> ToolMessage(calls[i])]

(* should_continue with the test of the tool calls lost.                   *)
should_continue_always_tools(msgs) == "tools"

should_continue(msgs) ==
    LET last_message == msgs[Len(msgs)]
    IN  IF last_message.type = "ai" /\ Len(last_message.tool_calls) > 0
        THEN "tools"
        ELSE "evaluator"

(* should_end testing criteria_met alone.                                  *)
should_end_met_only(met, needs) == IF met THEN "END" ELSE "worker"

should_end(met, needs) == IF met \/ needs THEN "END" ELSE "worker"

(* src/graph_builder.py, build_graph: the graph has the nodes and the      *)
(* edges of GraphBuilder.build, with the two conditions written as         *)
(* lambdas.  hasattr(message, "tool_calls"): an AIMessage has the          *)
(* attribute tool_calls, a list that may be empty; a human or a tool       *)
(* message has no such attribute.                                          *)
hasattr_tool_calls(message) == message.type = "ai"

(* Line 11: the condition of the edges out of worker.                      *)
build_graph_after_worker(msgs) ==
    IF hasattr_tool_calls(msgs[Len(msgs)]) THEN "tools" ELSE "evaluator"

(* Line 14: the condition of the edges out of evaluator.                   *)
build_graph_after_evaluator(met, needs) ==
    IF met \/ needs THEN "END" ELSE "worker"

(* Sidekick.run, lines 380-385: the last assistant message that does not   *)
(* start with the thinking marker.                                         *)
NoResponse == Content(FALSE, "No response generated")

(* The content of the last message, whatever it is.                        *)
final_answer_last_message(msgs) == msgs[Len(msgs)].content

final_answer(msgs) ==
    LET answers == {i \in 1..Len(msgs) :
                       msgs[i].type = "ai" /\ ~msgs[i].content.mark}
    IN  IF answers = {}
        THEN NoResponse
        ELSE msgs[CHOOSE i \in answers : \A j \in answers : j <= i].content

(* A run of the graph: Sidekick.run builds the initial state from the user *)
(* input and calls graph.ainvoke.                                          *)
GraphStart ==
    /\ node = "START"
    /\ messages = <<HumanMessage(Content(FALSE, "question"))>>
    /\ criteria_met = FALSE
    /\ needs_user_input = FALSE
    /\ step = 0
    /\ worker_llm \in WorkerLLMs
    /\ evaluator_llm \in EvaluatorLLMs
    /\ result = [kind |-> "none", content |-> Content(FALSE, "")]
    /\ state_class \in StateClasses
    /\ evaluation_history = <<>>

Running == node \in {"worker", "tools", "evaluator"}

(* A run of the graph touches nothing of the index lifecycle.              *)
GraphFrame == UNCHANGED <<sidekickVars, uiVars>>

(* add_edge(START, "worker")                                               *)
Start ==
    /\ node = "START"
    /\ node' = "worker"
    /\ UNCHANGED <<messages, criteria_met, needs_user_input, step,
                   worker_llm, evaluator_llm, result, state_class,
                   evaluation_history>>
    /\ GraphFrame

(* The worker node and its conditional edge.                               *)
Worker ==
    /\ node = "worker"
    /\ step < RECURSION_LIMIT
    /\ messages' = channel(state_class, "messages", messages,
                           worker_node(worker_llm))
    /\ worker_llm' = [worker_llm EXCEPT !.calls = @ + 1]
    /\ node' = should_continue(messages')
    /\ step' = step + 1
    /\ UNCHANGED <<criteria_met, needs_user_input, evaluator_llm, result,
                   state_class, evaluation_history>>
    /\ GraphFrame

(* The tools node and add_edge("tools", "worker").                         *)
Tools ==
    /\ node = "tools"
    /\ step < RECURSION_LIMIT
    /\ messages' = channel(state_class, "messages", messages,
                           ToolNode(messages))
    /\ node' = "worker"
    /\ step' = step + 1
    /\ UNCHANGED <<criteria_met, needs_user_input, worker_llm, evaluator_llm,
                   result, state_class, evaluation_history>>
    /\ GraphFrame

(* The evaluator node and its conditional edge.                            *)
Evaluator ==
    LET update == evaluator_node(evaluator_llm)
    IN  /\ node = "evaluator"
        /\ step < RECURSION_LIMIT
        /\ messages' = channel(state_class, "messages", messages, update.messages)
        /\ criteria_met' = channel(state_class, "criteria_met", criteria_met,
                                   update.criteria_met)
        /\ needs_user_input' = channel(state_class, "needs_user_input",
                                       needs_user_input, update.needs_user_input)
        /\ evaluation_history' = channel(state_class, "evaluation_history",
                                         evaluation_history,
                                         update.evaluation_history)
        /\ evaluator_llm' = [evaluator_llm EXCEPT !.calls = @ + 1]
        /\ node' = should_end(criteria_met', needs_user_input')
        /\ step' = step + 1
        /\ UNCHANGED <<worker_llm, result, state_class>>
        /\ GraphFrame

(* The recursion limit is reached before END: ainvoke raises.              *)
RecursionError ==
    /\ Running
    /\ step >= RECURSION_LIMIT
    /\ node' = "ERROR"
    /\ result' = [kind |-> "raise", content |-> Content(FALSE, "GraphRecursionError")]
    /\ UNCHANGED <<messages, criteria_met, needs_user_input, step,
                   worker_llm, evaluator_llm, state_class,
                   evaluation_history>>
    /\ GraphFrame

(* ainvoke returns at END and run returns the final answer.                *)
Return ==
    /\ node = "END"
    /\ result.kind = "none"
    /\ result' = [kind |-> "return", content |-> final_answer(messages)]
    /\ UNCHANGED <<node, messages, criteria_met, needs_user_input, step,
                   worker_llm, evaluator_llm, state_class,
                   evaluation_history>>
    /\ GraphFrame

NextGraph ==
    \/ Start
    \/ Worker
    \/ Tools
    \/ Evaluator
    \/ RecursionError
    \/ Return

InitGraph == SidekickInit /\ GraphStart /\ UiInit

SpecGraph == InitGraph /\ [][NextGraph]_vars

(* The run goes on while it can: a node that can run does run.             *)
FairGraph == SpecGraph /\ WF_vars(NextGraph)

----------------------------------------------------------------------------
(* A chat turn: src/ui/handlers.py (UIHandlers.chat over the repository    *)
(* keyed by username) and src/ui/ui_controller.py (UIController.chat over  *)
(* SessionService and SidekickService, keyed by username and folder).      *)
(* A session is known by its list of messages.  The handlers are called    *)
(* without a folder to switch to.                                          *)

USER == "u"
Usernames == {"", USER}
Prompts == {"", " ", "hi"}
ChatFolders == {NoKey, "/a"}
EnabledTools == {<<>>, <<"rag">>, <<"python">>}
Outcomes == {"ok", "raise"}

(* str.strip on the prompts of the model.                                  *)
strip(s) == IF s \in {"", " "} THEN "" ELSE s

(* IMPORTANT_PYTHON_PRINT_REMINDER + prompt                                *)
IMPORTANT_PYTHON_PRINT_REMINDER(prompt) ==
    CASE prompt = "" -> "REMINDER"
      [] prompt = " " -> "REMINDER "
      [] OTHER -> "REMINDER hi"

(* Python binds the keyword arguments of a call to a signature: every      *)
(* keyword names a parameter and every parameter without a default is      *)
(* given; otherwise the call raises TypeError before the body runs.        *)
binds(kwargs, params, required) ==
    kwargs \subseteq params /\ required \subseteq kwargs

UserTurn(text) == HumanMessage(Content(FALSE, text))
Reply(text) == AIMessage(Content(FALSE, text), <<>>)

(* UIHandlers._build_chat_history: the user and assistant messages without *)
(* the evaluation messages.                                                *)
build_chat_history(msgs) ==
    LET shown == SelectSeq(msgs, LAMBDA m :
                     m.type = "human" \/ (m.type = "ai" /\ ~m.content.mark))
    IN  [i \in 1..Len(shown) |->
            [role |-> IF shown[i].type = "human" THEN "user" ELSE "assistant",
             content |-> shown[i].content.text]]

(* UIController._to_gradio_messages (the texts of the model hold no LaTeX  *)
(* for _sanitize_assistant to rewrite).                                    *)
to_gradio_messages(msgs) ==
    LET shown == SelectSeq(msgs, LAMBDA m : m.type \in {"human", "ai"})
    IN  [i \in 1..Len(shown) |->
            [role |-> IF shown[i].type = "human" THEN "user" ELSE "assistant",
             content |-> shown[i].content.text]]

(* What a chat call does to the cache and the table, and what it returns.  *)
ChatOut(sessions, db, failed, before, returned) ==
    [sessions |-> sessions, db |-> db, failed |-> failed, escaped |-> FALSE,
     text |-> "",
     before |-> before, returned |-> returned]

(* UIHandlers.chat, lines 145-152: the error is appended as an assistant   *)
(* message and the state is saved.                                         *)
handlers_on_error(S, loaded, username, msgs) ==
    LET final == Append(msgs, Reply("Error processing request"))
    IN  [sessions |-> DictSet(loaded, username, final),
         db |-> DictSet(S.db, username, final),
         returned |-> build_chat_history(final)]

(* UIHandlers.chat(username, None, message).  S has the fields sessions    *)
(* (UIHandlers.sessions) and db (the sessions table).  graph.ainvoke       *)
(* raises or returns the state as a dict whose messages end with the       *)
(* answer; lines 125-128 then read state.evaluation_history, which         *)
(* core.state.SidekickState does not have: the AttributeError is caught by *)
(* the same except branch.                                                 *)
UIHandlers_chat(S, username, message, ainvoke) ==
    LET msg == strip(message)
        loaded == IF DictHas(S.sessions, username)
                  THEN S.sessions
                  ELSE DictSet(S.sessions, username, DictGet(S.db, username, <<>>))
        before == DictGet(loaded, username, <<>>)
        asked == Append(before, UserTurn(msg))
        invoked == IF ainvoke = "raise" THEN asked ELSE Append(asked, Reply("answer"))
        e == handlers_on_error(S, loaded, username, invoked)
    IN  IF username = ""
        THEN [ChatOut(S.sessions, S.db, FALSE, <<>>, <<>>)
                 EXCEPT !.text = "Please log in first"]
        ELSE IF msg = ""
        THEN ChatOut(S.sessions, S.db, FALSE, <<>>, <<>>)
        ELSE ChatOut(e.sessions, e.db, ainvoke = "raise", before, e.returned)

(* SessionService.load: the cached state, or the stored one, cached.       *)
session_load(S, key) ==
    IF DictHas(S.sessions, key)
    THEN S.sessions
    ELSE DictSet(S.sessions, key, DictGet(S.db, key, <<>>))

(* The signatures of SidekickService.send_message and of Sidekick.run, and *)
(* the keywords their callers pass.                                        *)
send_message_params == {"prompt", "state", "username", "folder", "top_k"}
send_message_required == {"prompt", "state", "username"}
chat_kwargs == {"prompt", "state", "username", "folder", "top_k", "enabled_tools"}
run_params == {"user_input", "folder", "top_k", "enabled_tools", "history"}
run_required == {"user_input"}
send_message_kwargs == {"user_input", "thread_id", "folder", "top_k"}

(* SidekickService.send_message called with the keywords kwargs on a state *)
(* whose messages are msgs: whether it raises and with which text, and the *)
(* messages of the state object afterwards (the list is appended to in     *)
(* place).                                                                 *)
send_message(kwargs, prompt, msgs, run) ==
    LET asked == Append(msgs, UserTurn(prompt))
    IN  IF ~binds(kwargs, send_message_params, send_message_required)
        THEN [raised |-> TRUE, messages |-> msgs,
              error |-> "send_message() got an unexpected keyword argument"]
        ELSE IF strip(prompt) = ""
        THEN [raised |-> TRUE, messages |-> msgs,
              error |-> "Prompt cannot be empty"]
        ELSE IF ~binds(send_message_kwargs, run_params, run_required)
        THEN [raised |-> TRUE, messages |-> asked,
              error |-> "run() got an unexpected keyword argument"]
        ELSE IF run = "raise"
        THEN [raised |-> TRUE, messages |-> asked, error |-> "run failed"]
        ELSE [raised |-> FALSE, messages |-> Append(asked, Reply("answer")),
              error |-> ""]

(* _hide_injected_user_reminder: the last user message that holds the      *)
(* injected prompt gets the original prompt back.                          *)
hide_injected_user_reminder(msgs, injected, original) ==
    LET hits == {i \in 1..Len(msgs) :
                    msgs[i].type = "human" /\ msgs[i].content.text = injected}
    IN  IF hits = {}
        THEN msgs
        ELSE [msgs EXCEPT ![CHOOSE i \in hits : \A j \in hits : j <= i] =
                              UserTurn(original)]

folder_key(folder) == IF TruthyStr(folder) THEN folder ELSE "__no_folder__"

(* UIController.chat.  S has the fields sessions (SessionService.sessions) *)
(* and db (the sessions table).                                            *)
UIController_chat(S, username, folder, prompt, enabled_tools, run) ==
    LET key == <<username, folder_key(folder)>>
        loaded == session_load(S, key)
        before == DictGet(loaded, key, <<>>)
        injected == \E i \in 1..Len(enabled_tools) : enabled_tools[i] = "python"
        injected_prompt == IF injected
                           THEN IMPORTANT_PYTHON_PRINT_REMINDER(prompt)
                           ELSE prompt
        r == send_message(chat_kwargs, injected_prompt, before, run)
        shown == IF injected
                 THEN hide_injected_user_reminder(r.messages, injected_prompt, prompt)
                 ELSE r.messages
        error(e) == <<[role |-> "assistant", content |-> e]>>
    IN  IF username = ""
        THEN ChatOut(S.sessions, S.db, FALSE, <<>>,
                     error("No username provided for chat."))
        ELSE IF r.raised
        THEN ChatOut(DictSet(loaded, key, r.messages), S.db,
                     strip(prompt) /= "", before, error(r.error))
        ELSE ChatOut(DictSet(loaded, key, shown), DictSet(S.db, key, shown),
                     FALSE, before, to_gradio_messages(shown))

(* UIController.clear_chat                                                 *)
UIController_clear_chat(S, username, folder) ==
    LET key == <<username, folder_key(folder)>>
    IN  IF username = ""
        THEN S
        ELSE [sessions |-> DictSet(S.sessions, key, <<>>),
              db |-> DictSet(S.db, key, <<>>)]

(* UIHandlers.clear_chat                                                   *)
UIHandlers_clear_chat(S, username) ==
    IF DictHas(S.sessions, username)
    THEN [sessions |-> DictSet(S.sessions, username, <<>>),
          db |-> DictSet(S.db, username, <<>>)]
    ELSE S

Handlers == [sessions |-> handler_sessions, db |-> handler_db]
Services == [sessions |-> service_sessions, db |-> service_db]

(* The messages of a session: those of the cached state, or of the stored  *)
(* one when the cache does not hold it.                                    *)
SessionMessages(S, key) ==
    IF DictHas(S.sessions, key)
    THEN DictGet(S.sessions, key, <<>>)
    ELSE DictGet(S.db, key, <<>>)

(* The record of a chat call: its arguments, what it returned, and the     *)
(* messages the session S held under skey when it was called.              *)
ChatCall(handler, username, key, prompt, out, S, skey, enabled_tools) ==
    [handler |-> handler, username |-> username, key |-> key, prompt |-> prompt,
     failed |-> out.failed, escaped |-> out.escaped, before |-> out.before,
     returned |-> out.returned, text |-> out.text,
     enabled_tools |-> enabled_tools, was |-> SessionMessages(S, skey),
     stored |-> DictGet(S.db, skey, <<>>)]

ChatFrame ==
    UNCHANGED <<sidekickVars, graphVars, singletonVars, deleteVars, runVars,
                extVars, otherVars>>

HandlersChat(username, message, ainvoke) ==
    LET out == UIHandlers_chat(Handlers, username, message, ainvoke)
    IN  /\ Len(DictGet(handler_db, username, <<>>)) <= 3 * (MaxTurns - 1)
        /\ handler_sessions' = out.sessions
        /\ handler_db' = out.db
        /\ chat_last' = ChatCall("UIHandlers", username, "", strip(message), out,
                                 Handlers, username, <<>>)
        /\ UNCHANGED <<service_sessions, service_db>>
        /\ ChatFrame

HandlersClearChat(username) ==
    LET S == UIHandlers_clear_chat(Handlers, username)
    IN  /\ handler_sessions' = S.sessions
        /\ handler_db' = S.db
        /\ chat_last' = [NoChat EXCEPT !.handler = "clear_chat"]
        /\ UNCHANGED <<service_sessions, service_db>>
        /\ ChatFrame

ControllerChat(username, folder, prompt, enabled_tools, run) ==
    LET out == UIController_chat(Services, username, folder, prompt,
                                 enabled_tools, run)
    IN  /\ Len(DictGet(service_db, <<username, folder_key(folder)>>, <<>>))
               <= 3 * (MaxTurns - 1)
        /\ service_sessions' = out.sessions
        /\ service_db' = out.db
        /\ chat_last' = ChatCall("UIController", username, folder_key(folder),
                                 prompt, out, Services,
                                 <<username, folder_key(folder)>>, enabled_tools)
        /\ UNCHANGED <<handler_sessions, handler_db>>
        /\ ChatFrame

ControllerClearChat(username, folder) ==
    LET S == UIController_clear_chat(Services, username, folder)
    IN  /\ service_sessions' = S.sessions
        /\ service_db' = S.db
        /\ chat_last' = [NoChat EXCEPT !.handler = "clear_chat"]
        /\ UNCHANGED <<handler_sessions, handler_db>>
        /\ ChatFrame

NextChat ==
    \/ \E username \in Usernames, message \in Prompts, ainvoke \in Outcomes :
          HandlersChat(username, message, ainvoke)
    \/ \E username \in Usernames : HandlersClearChat(username)
    \/ \E username \in Usernames, folder \in ChatFolders, prompt \in Prompts,
          enabled_tools \in EnabledTools, run \in Outcomes :
          ControllerChat(username, folder, prompt, enabled_tools, run)
    \/ \E username \in Usernames, folder \in ChatFolders :
          ControllerClearChat(username, folder)

SpecChat == Init /\ [][NextChat]_vars

----------------------------------------------------------------------------
(* Lazy initialisation: get_controller (src/ui/ui_runtime.py) and          *)
(* ensure_initialized (src/ui/gradio_wrappers.py, src/ui/ui_core.py: the   *)
(* same code), called by coroutines of one event loop.  A coroutine runs   *)
(* without interruption from one suspension to the next; the suspensions   *)
(* are the wait for a held lock and the await of init_sidekick.  The       *)
(* initialisers are checked against every behaviour of the awaited         *)
(* init_sidekick: it suspends, and then it returns a new Sidekick or it    *)
(* raises.  Objects are known by their number of construction.             *)

MaxInits == 3
Initialisers == {"get_controller", "ensure_initialized"}

lock_of(fn) == IF fn = "get_controller" THEN rt_lock ELSE ui_init_lock

(* The fast path: the object to return at once, or None.                   *)
fast_path(fn) ==
    IF fn = "get_controller"
    THEN rt_controller
    ELSE IF ui_sidekick /= None /\ ui_handlers /= None THEN ui_handlers ELSE None

(* The test under the lock without the test: init_sidekick is awaited by   *)
(* every caller that gets the lock.                                        *)
needs_init_unchecked(fn) == TRUE

(* The test under the lock: "if _controller is None", "if sidekick is      *)
(* None".                                                                  *)
needs_init(fn) ==
    IF fn = "get_controller" THEN rt_controller = None ELSE ui_sidekick = None

SingletonFrame ==
    UNCHANGED <<sidekickVars, graphVars, chatVars, deleteVars, runVars,
                extVars, otherVars>>

(* The caller p holds the lock of fn and runs up to its next suspension or *)
(* to its return.                                                          *)
UnderLock(p, fn, waited) ==
    IF needs_init(fn)
    THEN /\ callers' = [callers EXCEPT ![p] =
                           [fn |-> fn, pc |-> "init", got |-> None,
                            waited |-> waited]]
         /\ init_calls' = [init_calls EXCEPT ![fn].started = @ + 1]
         /\ rt_lock' = IF fn = "get_controller" THEN p ELSE rt_lock
         /\ ui_init_lock' = IF fn = "get_controller" THEN ui_init_lock ELSE p
         /\ UNCHANGED <<rt_controller, ui_sidekick, ui_handlers>>
    ELSE /\ ui_handlers' = IF fn = "ensure_initialized" /\ ui_handlers = None
                           THEN ui_sidekick
                           ELSE ui_handlers
         /\ callers' = [callers EXCEPT ![p] =
                           [fn |-> fn, pc |-> "done",
                            got |-> IF fn = "get_controller"
                                    THEN rt_controller
                                    ELSE ui_handlers',
                            waited |-> waited]]
         /\ rt_lock' = IF fn = "get_controller" THEN 0 ELSE rt_lock
         /\ ui_init_lock' = IF fn = "get_controller" THEN ui_init_lock ELSE 0
         /\ UNCHANGED <<rt_controller, ui_sidekick, init_calls>>

(* A coroutine calls fn: the fast path, or the lock, taken at once when it *)
(* is free.                                                                *)
CallInitialiser(p, fn) ==
    /\ callers[p].pc = "idle"
    /\ init_calls[fn].started < MaxInits
    /\ IF fast_path(fn) /= None
       THEN /\ callers' = [callers EXCEPT ![p] =
                              [fn |-> fn, pc |-> "done", got |-> fast_path(fn),
                               waited |-> FALSE]]
            /\ UNCHANGED <<rt_controller, rt_lock, ui_sidekick, ui_handlers,
                           ui_init_lock, init_calls>>
       ELSE IF lock_of(fn) /= 0
       THEN /\ callers' = [callers EXCEPT ![p] =
                              [fn |-> fn, pc |-> "waiting", got |-> None,
                               waited |-> TRUE]]
            /\ UNCHANGED <<rt_controller, rt_lock, ui_sidekick, ui_handlers,
                           ui_init_lock, init_calls>>
       ELSE UnderLock(p, fn, FALSE)
    /\ SingletonFrame

(* The lock is released to a waiting coroutine.                            *)
AcquireLock(p) ==
    /\ callers[p].pc = "waiting"
    /\ lock_of(callers[p].fn) = 0
    /\ UnderLock(p, callers[p].fn, TRUE)
    /\ SingletonFrame

(* init_sidekick returns a new Sidekick: the globals are set, the lock is  *)
(* released and the caller returns.                                        *)
InitReturns(p) ==
    LET fn == callers[p].fn
        new == init_calls[fn].completed + 1
    IN  /\ callers[p].pc = "init"
        /\ init_calls' = [init_calls EXCEPT ![fn].completed = new]
        /\ IF fn = "get_controller"
           THEN /\ rt_controller' = new
                /\ rt_lock' = 0
                /\ callers' = [callers EXCEPT ![p].pc = "done", ![p].got = new]
                /\ UNCHANGED <<ui_sidekick, ui_handlers, ui_init_lock>>
           ELSE /\ ui_sidekick' = new
                /\ ui_handlers' = IF ui_handlers = None THEN new ELSE ui_handlers
                /\ ui_init_lock' = 0
                /\ callers' = [callers EXCEPT ![p].pc = "done",
                                              ![p].got = ui_handlers']
                /\ UNCHANGED <<rt_controller, rt_lock>>
        /\ SingletonFrame

(* init_sidekick raises: "async with" releases the lock and the exception  *)
(* leaves the initialiser.                                                 *)
InitRaises(p) ==
    LET fn == callers[p].fn
    IN  /\ callers[p].pc = "init"
        /\ rt_lock' = IF fn = "get_controller" THEN 0 ELSE rt_lock
        /\ ui_init_lock' = IF fn = "get_controller" THEN ui_init_lock ELSE 0
        /\ callers' = [callers EXCEPT ![p].pc = "done", ![p].got = Raised]
        /\ UNCHANGED <<rt_controller, ui_sidekick, ui_handlers, init_calls>>
        /\ SingletonFrame

(* The coroutine that has returned handles its next event.                 *)
NextEvent(p) ==
    /\ callers[p].pc = "done"
    /\ callers' = [callers EXCEPT ![p] = IdleCaller]
    /\ UNCHANGED <<rt_controller, rt_lock, ui_sidekick, ui_handlers,
                   ui_init_lock, init_calls>>
    /\ SingletonFrame

NextSingleton ==
    \/ \E p \in Callers, fn \in Initialisers : CallInitialiser(p, fn)
    \/ \E p \in Callers : AcquireLock(p)
    \/ \E p \in Callers : InitReturns(p)
    \/ \E p \in Callers : InitRaises(p)
    \/ \E p \in Callers : NextEvent(p)

SpecSingleton == Init /\ [][NextSingleton]_vars

----------------------------------------------------------------------------
(* src/utils/fs_utils.py: delete_dir_verified(dir_path, retries=...).      *)
(* The directory holds plain files, read-only files, or files another      *)
(* process keeps open (locked), and that can change between two attempts.  *)
(* Whether the directory exists changes during a call only by what the     *)
(* call does.  retries and sleep_s are not negative, and time.sleep        *)
(* returns.  An Optional[str] is a string or NoKey (None); str(e) may be   *)
(* the empty string.                                                       *)

FileKinds == {"plain", "readonly", "locked"}
ErrTexts == {"", "locked"}

(* rm_onerror_make_writable(func, path, exc_info): os.chmod and the retry  *)
(* of func; whether the retry removed the path (a failure is swallowed).   *)
rm_onerror_make_writable(files) == files = "readonly"

(* shutil.rmtree(dir_abs, onerror=rm_onerror_make_writable): the directory *)
(* is deleted ("deleted"); or an error went to the handler, whose retry    *)
(* failed too, and rmtree returns with the directory in place              *)
(* ("in_place"); or rmtree raises with the directory in place ("raised").  *)
shutil_rmtree(files, raises) ==
    IF files = "plain" \/ rm_onerror_make_writable(files)
    THEN "deleted"
    ELSE IF raises THEN "raised" ELSE "in_place"

(* force_delete_dir(dir_abs): os.chmod, os.remove and os.rmdir of every    *)
(* entry and os.rmdir of the directory.                                    *)
force_delete_dir(files, text) ==
    IF files = "locked"
    THEN [ok |-> FALSE, err |-> text, exists |-> TRUE]
    ELSE [ok |-> TRUE, err |-> NoKey, exists |-> FALSE]

(* The loop running once more than retries.                                *)
attempts_one_more(retries) == 1..(retries + 1)

(* range(1, retries + 1)                                                   *)
attempts(retries) == 1..retries

(* The verification skipped: the directory counts as gone after rmtree.    *)
verified_unchecked(exists) == TRUE

(* Lines 81, 91 and 114: "not os.path.exists(dir_abs)".                    *)
verified(exists) == ~exists

(* Line 117: err or last_err or "Unknown delete failure"                   *)
failure_message(err, last_err) ==
    IF TruthyStr(err) THEN err
    ELSE IF TruthyStr(last_err) THEN last_err
    ELSE "Unknown delete failure"

DeleteFrame ==
    UNCHANGED <<sidekickVars, graphVars, chatVars, singletonVars, runVars,
                extVars, otherVars>>

(* Lines 74-82: the call and its early return.                             *)
DeleteDirVerified(retries) ==
    /\ deletion.pc = "idle"
    /\ deletion' =
          IF verified(dir_exists)
          THEN [NoDeletion EXCEPT !.pc = "done", !.retries = retries,
                                  !.existed = dir_exists,
                                  !.ret = <<TRUE, NoKey>>]
          ELSE [NoDeletion EXCEPT !.pc = "loop", !.retries = retries,
                                  !.existed = dir_exists, !.attempt = 1]
    /\ UNCHANGED <<dir_exists, dir_files>>
    /\ DeleteFrame

(* Lines 84-103: one pass of the loop.                                     *)
Attempt(raises, text) ==
    LET called == dir_exists
        outcome == shutil_rmtree(dir_files, raises)
        after == IF called /\ outcome = "deleted" THEN FALSE ELSE dir_exists
        raised == called /\ outcome = "raised"
    IN  /\ deletion.pc = "loop"
        /\ deletion.attempt \in attempts(deletion.retries)
        /\ dir_exists' = after
        /\ deletion' =
              IF raised
              THEN [deletion EXCEPT !.attempt = @ + 1,
                                    !.rmtree_calls = @ + 1,
                                    !.failed_attempts = @ + 1,
                                    !.last_err = text]
              ELSE IF verified(after)
              THEN [deletion EXCEPT !.pc = "done",
                                    !.rmtree_calls = IF called THEN @ + 1 ELSE @,
                                    !.ret = <<TRUE, NoKey>>]
              ELSE [deletion EXCEPT !.attempt = @ + 1,
                                    !.rmtree_calls = IF called THEN @ + 1 ELSE @,
                                    !.failed_attempts = @ + 1]
        /\ UNCHANGED dir_files
        /\ DeleteFrame

(* Lines 108-117: the manual removal after the loop, and the return.       *)
Fallback(text) ==
    LET r == force_delete_dir(dir_files, text)
    IN  /\ deletion.pc = "loop"
        /\ deletion.attempt \notin attempts(deletion.retries)
        /\ dir_exists' = r.exists
        /\ deletion' =
              [deletion EXCEPT
                  !.pc = "done",
                  !.force_calls = @ + 1,
                  !.ret = IF r.ok /\ verified(r.exists)
                          THEN <<TRUE, NoKey>>
                          ELSE <<FALSE, failure_message(r.err, deletion.last_err)>>]
        /\ UNCHANGED dir_files
        /\ DeleteFrame

(* The caller goes on.                                                     *)
DeletionOver ==
    /\ deletion.pc = "done"
    /\ deletion' = NoDeletion
    /\ UNCHANGED <<dir_exists, dir_files>>
    /\ DeleteFrame

(* Between two calls the directory is made again, with files of some kind. *)
Mkdir(files) ==
    /\ deletion.pc = "idle"
    /\ ~dir_exists
    /\ dir_exists' = TRUE
    /\ dir_files' = files
    /\ UNCHANGED deletion
    /\ DeleteFrame

(* Another process opens or closes files of the directory, or their        *)
(* read-only attribute is changed, between two calls or during the sleep   *)
(* between two attempts.                                                   *)
Chfiles(files) ==
    /\ deletion.pc \in {"idle", "loop"}
    /\ dir_exists
    /\ dir_files /= files
    /\ dir_files' = files
    /\ UNCHANGED <<dir_exists, deletion>>
    /\ DeleteFrame

NextDelete ==
    \/ \E retries \in 0..MaxRetries : DeleteDirVerified(retries)
    \/ \E raises \in BOOLEAN, text \in ErrTexts : Attempt(raises, text)
    \/ \E text \in ErrTexts : Fallback(text)
    \/ DeletionOver
    \/ \E files \in FileKinds : Mkdir(files)
    \/ \E files \in FileKinds : Chfiles(files)

SpecDelete == Init /\ [][NextDelete]_vars

(* A call that can take its next step takes it: the loop and the manual    *)
(* removal are not held up for ever.                                       *)
FairDelete ==
    /\ SpecDelete
    /\ WF_vars(\E raises \in BOOLEAN, text \in ErrTexts : Attempt(raises, text))
    /\ WF_vars(\E text \in ErrTexts : Fallback(text))

----------------------------------------------------------------------------
(* src/core/sidekick.py: Sidekick.run up to graph.ainvoke, called by       *)
(* coroutines of one event loop.  A tool is known by its name and its      *)
(* tags; enabled_tools is None or a list of strings, known by its set.     *)
(* Nothing suspends in run before graph.ainvoke: setup,                    *)
(* _build_graph_with_tools and GraphBuilder.build await nothing that       *)
(* waits.                                                                  *)

Tool(name, tag) == [name |-> name, tags |-> {tag}]

(* src/tools/__init__.py: build_all_tools, one tool of three of the groups.*)
build_all_tools ==
    {Tool("search_documents", "rag"), Tool("web_search", "web_search"),
     Tool("python_repl_verbose", "python")}

ToolGroups == {"rag", "web_search", "python"}

AllEnabled == [none |-> TRUE, groups |-> {}]
Enabled(groups) == [none |-> FALSE, groups |-> groups]
EnabledRequests ==
    {AllEnabled} \cup {Enabled(g) : g \in SUBSET ToolGroups}
                 \cup {Enabled({"search_documents"})}

(* A compiled graph and the tools its worker and its tools node are bound  *)
(* to.                                                                     *)
Graph(tools) == [built |-> TRUE, tools |-> tools]

(* GraphBuilder.__init__(self, worker_llm, evaluator_llm, tools, memory)   *)
(* and the keywords _build_graph_with_tools calls it with.                 *)
GraphBuilder_params == {"worker_llm", "evaluator_llm", "tools", "memory"}
GraphBuilder_kwargs == {"worker_llm", "tools", "memory"}

(* _build_graph_with_tools(tools): the Sidekick fields afterwards and      *)
(* whether it raised.                                                      *)
build_graph_with_tools(A, tools) ==
    IF binds(GraphBuilder_kwargs, GraphBuilder_params, GraphBuilder_params)
    THEN [agent |-> [A EXCEPT !.graph = Graph(tools), !.tools = tools],
          raised |-> FALSE]
    ELSE [agent |-> A, raised |-> TRUE]

(* setup()                                                                 *)
setup(A) ==
    build_graph_with_tools([A EXCEPT !.all_tools = build_all_tools],
                           build_all_tools)

(* run, lines 281-292: the tools of the run.                               *)
tools_to_use(A, enabled_tools) ==
    IF enabled_tools.none
    THEN A.all_tools
    ELSE {t \in A.all_tools :
             \/ enabled_tools.groups \cap t.tags /= {}
             \/ t.name \in enabled_tools.groups}

(* run, lines 274-300: the Sidekick fields when graph.ainvoke is reached,  *)
(* or when an exception leaves run before.                                 *)
run_to_invoke(A, enabled_tools) ==
    LET s == IF ~A.graph.built \/ A.all_tools = {}
             THEN setup(A)
             ELSE [agent |-> A, raised |-> FALSE]
        use == tools_to_use(s.agent, enabled_tools)
    IN  IF s.raised
        THEN s
        ELSE IF use /= s.agent.tools
        THEN build_graph_with_tools(s.agent, use)
        ELSE s

RunFrame ==
    UNCHANGED <<sidekickVars, graphVars, chatVars, singletonVars, deleteVars,
                extVars, otherVars>>

(* A coroutine calls run(user_input, enabled_tools=...): it runs to the    *)
(* call of graph.ainvoke, which suspends it on the graph it read from      *)
(* self.graph, or to the exception that leaves run.                        *)
Run(p, enabled_tools) ==
    LET r == run_to_invoke(agent, enabled_tools)
    IN  /\ runs[p].pc = "idle"
        /\ agent' = r.agent
        /\ runs' = [runs EXCEPT ![p] =
                      IF r.raised
                      THEN [pc |-> "done", enabled_tools |-> enabled_tools,
                            graph |-> NoGraph, outcome |-> "raise"]
                      ELSE [pc |-> "invoking", enabled_tools |-> enabled_tools,
                            graph |-> r.agent.graph, outcome |-> "none"]]
        /\ RunFrame

(* The run is over: graph.ainvoke has returned or raised, or run had       *)
(* raised before; the coroutine handles its next event.                    *)
RunOver(p) ==
    /\ runs[p].pc \in {"invoking", "done"}
    /\ runs' = [runs EXCEPT ![p] = IdleRun]
    /\ UNCHANGED agent
    /\ RunFrame

NextRun ==
    \/ \E p \in Callers, enabled_tools \in EnabledRequests : Run(p, enabled_tools)
    \/ \E p \in Callers : RunOver(p)

SpecRun == Init /\ [][NextRun]_vars

----------------------------------------------------------------------------
(* src/core/sidekick.py, Sidekick.run from the thread_id on: the compiled  *)
(* graph is invoked with a configuration that names a thread, and the      *)
(* checkpointer (Sidekick.memory, one MemorySaver for every graph the      *)
(* object builds) keeps the state of each thread after every node.         *)
(* graph.ainvoke starts from what the checkpointer holds for the thread,   *)
(* with the messages of the input appended by add_messages.                *)

MaxThreads == 3
MaxMessages == 4

(* A run that names the same thread at every invocation.                   *)
uuid4_fixed(n) == 1

(* str(uuid.uuid4()) at the invocation after n earlier ones: a random      *)
(* 122-bit value, taken as one that no earlier call returned.              *)
uuid4(n) == n + 1

Histories ==
    {<<>>,
     <<HumanMessage(Content(FALSE, "earlier")),
       AIMessage(Content(FALSE, "answer"), <<>>)>>}

(* messages = history if history is given and not empty, else the single   *)
(* user message.                                                           *)
initial_messages(user_input, history) ==
    IF Len(history) > 0
    THEN history
    ELSE <<HumanMessage(Content(FALSE, user_input))>>

(* MemorySaver: the messages checkpointed for a thread.                    *)
checkpoint(mem, thread_id) == DictGet(mem, thread_id, <<>>)

(* The state graph.ainvoke starts from.                                    *)
ainvoke_state(mem, thread_id, msgs) == checkpoint(mem, thread_id) \o msgs

ThreadFrame ==
    UNCHANGED <<sidekickVars, graphVars, chatVars, singletonVars, deleteVars,
                runVars, keyVars, indexerVars, searcherVars, otherVars>>

(* run(user_input, history=history) reaches graph.ainvoke.                 *)
RunInvoke(user_input, history) ==
    LET thread_id == uuid4(Len(threads))
        msgs == initial_messages(user_input, history)
        state == ainvoke_state(memory, thread_id, msgs)
    IN  /\ invoke.pc = "idle"
        /\ Len(threads) < MaxThreads
        /\ threads' = Append(threads, thread_id)
        /\ memory' = DictSet(memory, thread_id, state)
        /\ invoke' = [pc |-> "worker", thread_id |-> thread_id,
                      passed |-> msgs, started |-> state]
        /\ ThreadFrame

(* A node of the running graph appends its messages; the checkpointer      *)
(* saves the state of the thread.                                          *)
Checkpointed(update, next) ==
    /\ Len(checkpoint(memory, invoke.thread_id)) < MaxMessages
    /\ memory' = DictSet(memory, invoke.thread_id,
                         checkpoint(memory, invoke.thread_id) \o update)
    /\ invoke' = [invoke EXCEPT !.pc = next]
    /\ UNCHANGED threads
    /\ ThreadFrame

(* The worker answers with n tool-call requests.                           *)
InvokeWorker(n) ==
    /\ invoke.pc = "worker"
    /\ Checkpointed(<<AIMessage(Content(FALSE, "answer"),
                                [i \in 1..n |-> <<invoke.thread_id, i>>])>>,
                    IF n > 0 THEN "tools" ELSE "evaluator")

InvokeTools ==
    /\ invoke.pc = "tools"
    /\ Checkpointed(ToolNode(checkpoint(memory, invoke.thread_id)), "worker")

InvokeEvaluator(met) ==
    /\ invoke.pc = "evaluator"
    /\ Checkpointed(<<AIMessage(Content(TRUE, "Evaluation"), <<>>)>>,
                    should_end(met, FALSE))

(* ainvoke raises (an LLM or a tool fails, or the recursion limit is       *)
(* reached): what was checkpointed stays in the MemorySaver.               *)
InvokeRaises ==
    /\ invoke.pc \in {"worker", "tools", "evaluator"}
    /\ invoke' = [invoke EXCEPT !.pc = "idle"]
    /\ UNCHANGED <<memory, threads>>
    /\ ThreadFrame

InvokeReturns ==
    /\ invoke.pc = "END"
    /\ invoke' = [invoke EXCEPT !.pc = "idle"]
    /\ UNCHANGED <<memory, threads>>
    /\ ThreadFrame

NextThread ==
    \/ \E history \in Histories : RunInvoke("question", history)
    \/ \E n \in 0..1 : InvokeWorker(n)
    \/ InvokeTools
    \/ \E met \in BOOLEAN : InvokeEvaluator(met)
    \/ InvokeRaises
    \/ InvokeReturns

SpecThread == Init /\ [][NextThread]_vars

----------------------------------------------------------------------------
(* src/services/folder_service.py _make_index_key and the key of           *)
(* Sidekick.index_directory.  The file system is the environment's: what   *)
(* is at an absolute path may change between two calls.                    *)

(* _make_index_key without the prefix of a file.                           *)
make_index_key_bare(path, kind) == get_absolute_path(normalize_path(path))

(* _make_index_key; kind is what the file system holds at the absolute     *)
(* path (os.path.isfile).                                                  *)
make_index_key(path, kind) ==
    LET abs_path == get_absolute_path(normalize_path(path))
    IN  IF kind = "file" THEN "FILE::" \o abs_path ELSE abs_path

(* The folder_key Sidekick.index_directory computes once the directory is  *)
(* valid.                                                                  *)
index_directory_key(directory) == get_absolute_path(normalize_path(directory))

(* A file system: what is inside a directory has a directory above it.     *)
FileSystems ==
    {f \in [KeyAbsPaths -> {"missing", "file", "dir"}] :
        f[CWD \o "/" \o "FILE::/a"] /= "missing" => f[CWD] = "dir"}

KeyCall(fn, path, kind, key) ==
    [fn |-> fn, path |-> path, abs |-> get_absolute_path(normalize_path(path)),
     kind |-> kind, key |-> key]

(* The last two calls.                                                     *)
Logged(call) ==
    IF Len(key_calls) < 2 THEN Append(key_calls, call) ELSE <<key_calls[2], call>>

KeyFrame ==
    UNCHANGED <<sidekickVars, graphVars, chatVars, singletonVars, deleteVars,
                runVars, threadVars, indexerVars, searcherVars, otherVars>>

MakeIndexKey(path) ==
    LET kind == fs_kind[get_absolute_path(normalize_path(path))]
    IN  /\ key_calls' = Logged(KeyCall("_make_index_key", path, kind,
                                       make_index_key(path, kind)))
        /\ UNCHANGED fs_kind
        /\ KeyFrame

IndexDirectoryKey(directory) ==
    LET kind == fs_kind[get_absolute_path(normalize_path(directory))]
    IN  /\ validate_directory(normalize_path(directory),
                              IF kind = "dir" THEN "dir_docs" ELSE kind)
        /\ key_calls' = Logged(KeyCall("index_directory", directory, kind,
                                       index_directory_key(directory)))
        /\ UNCHANGED fs_kind
        /\ KeyFrame

(* The user creates, deletes or replaces files and directories.            *)
FsChange(f) ==
    /\ f /= fs_kind
    /\ fs_kind' = f
    /\ UNCHANGED key_calls
    /\ KeyFrame

NextKey ==
    \/ \E path \in KeyPaths : MakeIndexKey(path)
    \/ \E directory \in KeyPaths : IndexDirectoryKey(directory)
    \/ \E f \in FileSystems : FsChange(f)

SpecKey == Init /\ [][NextKey]_vars

----------------------------------------------------------------------------
(* Sidekick.index_directory run in worker threads: the chat handlers call  *)
(* it through asyncio.to_thread (ui/handlers.py, lines 58 and 103), so two *)
(* calls run in two threads of the default executor.  index_directory      *)
(* takes no lock; a thread can be preempted between any two of its         *)
(* accesses to the registry, the disk and the manifest file.  Every        *)
(* directory is valid and has documents, and chunking, the creation of a   *)
(* store, the deletion of an old store and the manifest write succeed: the *)
(* failures of one call are the subject of Spec.                           *)

IndexerFrame ==
    UNCHANGED <<current_folder, default_k, last, answer, corrupt, graphVars,
                chatVars, singletonVars, deleteVars, runVars, threadVars,
                keyVars, searcherVars, otherVars>>

(* The shared fields after a step of a thread.                             *)
Share(S) ==
    /\ retriever_registry' = S.reg
    /\ vectorstore_paths' = S.paths
    /\ manifest' = S.manifest
    /\ disk' = S.disk
    /\ nextDir' = S.nextDir
    /\ IndexerFrame

Step(p, pc, status) ==
    indexers' = [indexers EXCEPT ![p].pc = pc, ![p].status = status]

(* Lines 172-181: the directory is validated and the registry tested.      *)
IndexBegin(p, directory, force_reindex) ==
    LET dir == normalize_path(directory)
        key == get_absolute_path(dir)
        begun == [IdleIndexer EXCEPT !.key = key, !.force = force_reindex]
    IN  /\ indexers[p].pc \in {"idle", "done"}
        /\ indexers' =
             [indexers EXCEPT ![p] =
                IF ~validate_directory(dir, "dir_docs")
                THEN [begun EXCEPT !.pc = "done", !.status = "ERROR_INVALID_DIRECTORY"]
                ELSE IF already_indexed(Here, key, force_reindex)
                THEN [begun EXCEPT !.pc = "done", !.status = "INFO_ALREADY_INDEXED"]
                ELSE [begun EXCEPT !.pc = IF force_reindex THEN "clear" ELSE "create"]]
        /\ Share(Here)

(* Lines 184-187.                                                          *)
IndexClear(p) ==
    /\ indexers[p].pc = "clear"
    /\ Step(p, "create", "")
    /\ Share(clear_old_data(Here, indexers[p].key, "deleted"))

(* Lines 190-213: the documents are loaded and chunked and the store is    *)
(* created at a new location.                                              *)
IndexCreate(p) ==
    /\ indexers[p].pc = "create"
    /\ nextDir <= MaxStores
    /\ indexers' = [indexers EXCEPT ![p].pc = "register",
                                    ![p].persist_dir = create_vectorstore_result(Here, TRUE)]
    /\ Share(create_vectorstore(Here, TRUE, "deleted"))

(* Lines 216-220.                                                          *)
IndexRegister(p) ==
    /\ indexers[p].pc = "register"
    /\ Step(p, "load", "")
    /\ Share(register_retriever(Here, indexers[p].key,
                                as_retriever(indexers[p].persist_dir),
                                indexers[p].persist_dir))

(* Line 223: manifest = self._load_index_manifest()                        *)
IndexLoadManifest(p) ==
    /\ indexers[p].pc = "load"
    /\ indexers' = [indexers EXCEPT ![p].pc = "save", ![p].loaded = manifest]
    /\ Share(Here)

(* Lines 224-230: the loaded dict gets the key and is written; the call    *)
(* returns the success string.                                             *)
IndexSaveManifest(p) ==
    /\ indexers[p].pc = "save"
    /\ Step(p, "done", "OK_INDEXED")
    /\ Share(manifest_put([Here EXCEPT !.manifest = indexers[p].loaded],
                          indexers[p].key, indexers[p].persist_dir, "ok"))

NextIndexing ==
    \/ \E p \in Callers, directory \in RawPaths, force_reindex \in BOOLEAN :
          IndexBegin(p, directory, force_reindex)
    \/ \E p \in Callers : IndexClear(p)
    \/ \E p \in Callers : IndexCreate(p)
    \/ \E p \in Callers : IndexRegister(p)
    \/ \E p \in Callers : IndexLoadManifest(p)
    \/ \E p \in Callers : IndexSaveManifest(p)

SpecIndexing == Init /\ [][NextIndexing]_vars

----------------------------------------------------------------------------
(* Sidekick.run, lines 311-336, and the search_documents tool: a run makes *)
(* its folder the active folder of the one RetrievalService and then       *)
(* awaits graph.ainvoke; the tool calls of the run read the active folder  *)
(* when they are made.  The runs are coroutines of one event loop: another *)
(* run executes while a run waits for its graph.                           *)

RunFolders == {NoKey, "/a/", "/b"}
TopKs == {None, 2}

(* rag_enabled, lines 311-314.                                             *)
rag_enabled(enabled_tools) ==
    enabled_tools.none \/ "rag" \in enabled_tools.groups

(* The folder a run makes active, lines 317-322.                           *)
active_folder(folder, enabled_tools) ==
    IF TruthyStr(folder) /\ rag_enabled(enabled_tools)
    THEN get_absolute_path(folder)
    ELSE NoKey

(* The retriever a search_documents call of a run queries:                 *)
(* retrieval_service.search(query=query, k=effective_k) names no folder.   *)
retriever_of_call(S, folder) == get_retriever(S, NoKey)

SearcherFrame ==
    UNCHANGED <<disk, corrupt, manifest, retriever_registry, vectorstore_paths,
                nextDir, last, answer, graphVars, chatVars, singletonVars,
                deleteVars, runVars, threadVars, keyVars, indexerVars,
                otherVars>>

(* run(user_input, folder, top_k, enabled_tools) up to graph.ainvoke.      *)
RunSetsFolder(p, folder, top_k, enabled_tools) ==
    /\ searchers[p].pc = "idle"
    /\ current_folder' = active_folder(folder, enabled_tools)
    /\ default_k' = IF top_k /= None /\ top_k > 0 THEN top_k ELSE default_k
    /\ searchers' = [searchers EXCEPT ![p] =
                        [pc |-> "graph",
                         folder |-> active_folder(folder, enabled_tools),
                         rag_enabled |-> rag_enabled(enabled_tools),
                         query |-> NoQuery]]
    /\ SearcherFrame

(* The tools node of the run calls search_documents: the retriever the     *)
(* call queries and the retriever registered for the folder of the run.    *)
RunSearches(p) ==
    /\ searchers[p].pc = "graph"
    /\ searchers[p].rag_enabled
    /\ Len(retriever_registry) > 0
    /\ searchers' = [searchers EXCEPT ![p].query =
                        [queried |-> retriever_of_call(Service, searchers[p].folder),
                         registered |-> DictGet(retriever_registry,
                                                searchers[p].folder,
                                                NoRetriever)]]
    /\ UNCHANGED <<current_folder, default_k>>
    /\ SearcherFrame

(* graph.ainvoke returns or raises.                                        *)
RunEnds(p) ==
    /\ searchers[p].pc = "graph"
    /\ searchers' = [searchers EXCEPT ![p] = IdleSearcher]
    /\ UNCHANGED <<current_folder, default_k>>
    /\ SearcherFrame

(* A folder that is not registered gets indexed.                           *)
FolderIndexed(folder_path) ==
    /\ ~has_retriever(Service, folder_path)
    /\ RegisterRetriever(folder_path, Len(retriever_registry) + 1)

NextFolder ==
    \/ \E folder_path \in AbsPaths : FolderIndexed(folder_path)
    \/ \E p \in Callers, folder \in RunFolders, top_k \in TopKs,
          enabled_tools \in {AllEnabled, Enabled({"rag"}), Enabled({"web_search"})} :
          RunSetsFolder(p, folder, top_k, enabled_tools)
    \/ \E p \in Callers : RunSearches(p)
    \/ \E p \in Callers : RunEnds(p)

SpecFolder == Init /\ [][NextFolder]_vars

----------------------------------------------------------------------------
(* A forced reindex step by step: Sidekick.index_directory                 *)
(* (src/core/sidekick.py) and Sidekick.load_and_register_directory         *)
(* (src/sidekick.py, the Sidekick app.py constructs).  Each Sidekick has   *)
(* its registry (reindex.S.reg, reindex.S.paths) and its stores on disk;   *)
(* one caller calls one of the two functions at a time.  The directories   *)
(* are valid and have documents.  reindex.log lists what the running call  *)
(* has done so far: "unregister" (the retriever left retriever_registry),  *)
(* "delete" (rmtree of the old persist location was called), "create" and  *)
(* "register".                                                             *)

Impls == {"index_directory", "load_and_register_directory"}

Did(event) == Append(reindex.log, event)

ReindexFrame ==
    UNCHANGED <<sidekickVars, graphVars, chatVars, singletonVars, deleteVars,
                runVars, extVars, sessionVars>>

(* core/sidekick.py, lines 172-181; sidekick.py, lines 131-144.            *)
ReindexBegin(impl, directory, force_reindex) ==
    LET dir == normalize_path(directory)
        key == get_absolute_path(dir)
        S == reindex.S
        call == [NoReindex EXCEPT !.impl = impl, !.key = key,
                                  !.force = force_reindex, !.S = S,
                                  !.was = has_retriever(S, key)]
    IN  /\ reindex.pc = "idle"
        /\ reindex' =
             IF already_indexed(S, key, force_reindex)
             THEN call
             ELSE IF ~force_reindex
             THEN [call EXCEPT !.pc = "create"]
             ELSE IF impl = "index_directory"
             THEN [call EXCEPT !.pc = "unregister"]
             ELSE IF DictHas(S.paths, key)
             THEN [call EXCEPT !.pc = "pop_path"]
             ELSE [call EXCEPT !.pc = "create"]
        /\ ReindexFrame

(* core/sidekick.py, lines 185-186.                                        *)
IndexDirectoryUnregister ==
    LET S == reindex.S
        persist_dir == unregister_result(S, reindex.key)
    IN  /\ reindex.impl = "index_directory"
        /\ reindex.pc = "unregister"
        /\ reindex' =
             [reindex EXCEPT
                !.S = unregister_retriever(S, reindex.key),
                !.prev = persist_dir,
                !.log = IF has_retriever(S, reindex.key)
                        THEN Did("unregister") ELSE reindex.log,
                !.pc = IF TruthyDir(persist_dir) THEN "delete" ELSE "create"]
        /\ ReindexFrame

(* core/sidekick.py, line 187.                                             *)
IndexDirectoryDelete(outcome) ==
    /\ reindex.impl = "index_directory"
    /\ reindex.pc = "delete"
    /\ reindex' =
         [reindex EXCEPT
            !.S = remove_vectorstore(reindex.S, reindex.prev, outcome),
            !.log = Did("delete"),
            !.pc = "create"]
    /\ ReindexFrame

(* sidekick.py, lines 145-146: prev = self.vectorstore_paths.pop(...)      *)
LoadAndRegisterPopPath ==
    LET S == reindex.S
        prev == DictGet(S.paths, reindex.key, NoDir)
    IN  /\ reindex.impl = "load_and_register_directory"
        /\ reindex.pc = "pop_path"
        /\ reindex' =
             [reindex EXCEPT
                !.S = [S EXCEPT !.paths = DictPop(S.paths, reindex.key)],
                !.prev = prev,
                !.pc = IF TruthyDir(prev) /\ prev \in S.disk
                       THEN "rmtree" ELSE "pop_retriever"]
        /\ ReindexFrame

(* sidekick.py, lines 147-150: shutil.rmtree(prev), a failure is printed.  *)
LoadAndRegisterRmtree(outcome) ==
    /\ reindex.impl = "load_and_register_directory"
    /\ reindex.pc = "rmtree"
    /\ reindex' =
         [reindex EXCEPT
            !.S = rmtree(reindex.S, reindex.prev, outcome),
            !.log = Did("delete"),
            !.pc = "pop_retriever"]
    /\ ReindexFrame

(* sidekick.py, line 151: self.retriever_registry.pop(folder_key, None)    *)
LoadAndRegisterPopRetriever ==
    LET S == reindex.S
    IN  /\ reindex.impl = "load_and_register_directory"
        /\ reindex.pc = "pop_retriever"
        /\ reindex' =
             [reindex EXCEPT
                !.S = [S EXCEPT !.reg = DictPop(S.reg, reindex.key)],
                !.log = IF DictHas(S.reg, reindex.key)
                        THEN Did("unregister") ELSE reindex.log,
                !.pc = "create"]
        /\ ReindexFrame

(* core/sidekick.py, lines 190-213; sidekick.py, lines 153-261: the        *)
(* documents are loaded and chunked and the store is created at a new      *)
(* location.                                                               *)
ReindexCreate(create_ok, cleanup) ==
    LET S == reindex.S
        persist_dir == create_vectorstore_result(S, create_ok)
    IN  /\ reindex.pc = "create"
        /\ S.nextDir <= MaxStores
        /\ reindex' =
             [reindex EXCEPT
                !.S = create_vectorstore(S, create_ok, cleanup),
                !.new = persist_dir,
                !.log = Did("create"),
                !.pc = IF TruthyDir(persist_dir) THEN "register" ELSE "idle"]
        /\ ReindexFrame

(* core/sidekick.py, lines 216-225; sidekick.py, lines 264-267 (no         *)
(* manifest).                                                              *)
ReindexRegister(io) ==
    LET S == reindex.S
    IN  /\ reindex.pc = "register"
        /\ reindex' =
             [reindex EXCEPT
                !.S = IF reindex.impl = "index_directory"
                      THEN register_and_record(S, reindex.key, reindex.new, io)
                      ELSE register_retriever(S, reindex.key,
                                              as_retriever(reindex.new),
                                              reindex.new),
                !.log = Did("register"),
                !.pc = "idle"]
        /\ ReindexFrame

NextReindex ==
    \/ \E impl \in Impls, directory \in RawPaths, force_reindex \in BOOLEAN :
          ReindexBegin(impl, directory, force_reindex)
    \/ IndexDirectoryUnregister
    \/ \E outcome \in RmOutcomes : IndexDirectoryDelete(outcome)
    \/ LoadAndRegisterPopPath
    \/ \E outcome \in RmOutcomes : LoadAndRegisterRmtree(outcome)
    \/ LoadAndRegisterPopRetriever
    \/ \E create_ok \in BOOLEAN, cleanup \in RmOutcomes :
          ReindexCreate(create_ok, cleanup)
    \/ \E io \in ManifestIO : ReindexRegister(io)

SpecReindex == Init /\ [][NextReindex]_vars

----------------------------------------------------------------------------
(* The folder list of a user: UIController.get_folders, add_folder and     *)
(* remove_folder (src/ui/ui_controller.py) over SessionService             *)
(* (src/services/session_service.py), SessionRepository                    *)
(* (src/db/session_repository.py) and FolderService                        *)
(* (src/services/folder_service.py), for one user and the session of the   *)
(* key "__global__".  SessionService caches the state object it loaded:    *)
(* what a handler does to the object it got from load is done to the       *)
(* cached object.  FolderService hands the path to Sidekick.index_path and *)
(* Sidekick.remove_path in a worker thread; such a call returns a message  *)
(* or raises.                                                              *)

MaxSessions == 3
UiFolders == {"/a/", "/b"}
FolderCalls == {"returns", "raises"}
SessionIO == {"ok", "save_fails"}

Contains(seq, x) == \E i \in 1..Len(seq) : seq[i] = x

(* list.remove(x): the list without the first x.                           *)
Remove(seq, x) ==
    LET i == CHOOSE j \in 1..Len(seq) :
                 seq[j] = x /\ \A h \in 1..(j - 1) : seq[h] /= x
    IN  SubSeq(seq, 1, i - 1) \o SubSeq(seq, i + 1, Len(seq))

(* SidekickState(...): the fields not given get their defaults; thread_id  *)
(* and session_id default to a new uuid4.                                  *)
SidekickState(made, given) ==
    [thread_id |-> uuid4(made),
     session_id |-> IF given.session_id /= 0 THEN given.session_id
                    ELSE uuid4(made),
     indexed_directories |-> given.indexed_directories,
     current_directory |-> given.current_directory]

(* SessionRepository.load: the state rebuilt from the row, or a new state  *)
(* when there is no row.                                                   *)
repository_load(row, made) == SidekickState(made, row)

(* SessionRepository.save, lines 47-56: the dict that is written.          *)
repository_data(state) ==
    [session_id |-> state.session_id,
     indexed_directories |-> state.indexed_directories,
     current_directory |-> state.current_directory]

(* SessionRepository.save: the row is written, or the exception of the     *)
(* write is printed.                                                       *)
repository_save(row, state, io) ==
    IF io = "ok" THEN repository_data(state) ELSE row

(* The cache, the row and the number of states made.                       *)
Sessions ==
    [cache |-> global_session, row |-> global_row, made |-> states_made]

Cached(S) == S.cache.thread_id /= 0

(* SessionService.load: the cached state, or the loaded one, cached.       *)
service_load(S) ==
    IF Cached(S) THEN S
    ELSE [S EXCEPT !.cache = repository_load(S.row, S.made),
                   !.made = S.made + 1]

(* SessionService.save                                                     *)
service_save(S, state, io) ==
    [S EXCEPT !.cache = state, !.row = repository_save(S.row, state, io)]

(* FolderService.ensure_indexed and clear_folder: the path is validated,   *)
(* made the current directory of the state, and indexed or removed.        *)
folder_call_raises(exists, call) == ~exists \/ call = "raises"

folder_call_state(state, folder, exists) ==
    IF exists
    THEN [state EXCEPT !.current_directory = normalize_path(folder)]
    ELSE state

FolderOut(S, status, returned) ==
    [S |-> S, status |-> status, returned |-> returned]

(* UIController.get_folders                                                *)
get_folders(S) == service_load(S).cache.indexed_directories

(* UIController.add_folder                                                 *)
add_folder(S, folder, exists, call, io) ==
    LET S1 == service_load(S)
        state == S1.cache
    IN  IF ~Contains(state.indexed_directories, folder)
        THEN LET appended == [state EXCEPT !.indexed_directories =
                                               Append(@, folder)]
                 new_state == folder_call_state(appended, folder, exists)
             IN  IF folder_call_raises(exists, call)
                 THEN FolderOut([S1 EXCEPT !.cache = new_state], "Error", <<>>)
                 ELSE FolderOut(service_save(S1, new_state, io),
                                "Folder added", new_state.indexed_directories)
        ELSE FolderOut(S1, "Folder already exists", state.indexed_directories)

(* UIController.remove_folder                                              *)
remove_folder(S, folder, exists, call, io) ==
    LET S1 == service_load(S)
        state == S1.cache
    IN  IF Contains(state.indexed_directories, folder)
        THEN LET removed == [state EXCEPT !.indexed_directories =
                                              Remove(@, folder)]
                 new_state == folder_call_state(removed, folder, exists)
             IN  IF folder_call_raises(exists, call)
                 THEN FolderOut([S1 EXCEPT !.cache = new_state], "Error", <<>>)
                 ELSE FolderOut(service_save(S1, new_state, io),
                                "Folder removed", new_state.indexed_directories)
        ELSE FolderOut(S1, "Folder not found", state.indexed_directories)

SessionFrame ==
    UNCHANGED <<sidekickVars, graphVars, chatVars, singletonVars, deleteVars,
                runVars, extVars, reindex>>

(* The fields after a call, and the record of the call.  saved_thread is   *)
(* the thread_id of the state the row was last written from.               *)
SessionCall(op, folder, out) ==
    /\ global_session' = out.S.cache
    /\ global_row' = out.S.row
    /\ states_made' = out.S.made
    /\ session_last' =
         [op |-> op, folder |-> folder, status |-> out.status,
          returned |-> out.returned, before |-> get_folders(Sessions),
          saved_thread |-> IF out.S.row /= global_row
                           THEN out.S.cache.thread_id
                           ELSE session_last.saved_thread]
    /\ SessionFrame

GetFolders ==
    /\ states_made < MaxSessions
    /\ SessionCall("get_folders", NoKey,
                   FolderOut(service_load(Sessions), "",
                             get_folders(Sessions)))

AddFolder(folder, exists, call, io) ==
    /\ states_made < MaxSessions
    /\ SessionCall("add_folder", folder,
                   add_folder(Sessions, folder, exists, call, io))

RemoveFolder(folder, exists, call, io) ==
    /\ states_made < MaxSessions
    /\ SessionCall("remove_folder", folder,
                   remove_folder(Sessions, folder, exists, call, io))

(* The process ends and starts again: the cache of the new SessionService  *)
(* is empty, the table is kept.                                            *)
SessionRestart ==
    /\ Cached(Sessions)
    /\ states_made < MaxSessions
    /\ global_session' = NoState
    /\ session_last' = [session_last EXCEPT !.op = "restart"]
    /\ UNCHANGED <<global_row, states_made>>
    /\ SessionFrame

NextSession ==
    \/ GetFolders
    \/ \E folder \in UiFolders, exists \in BOOLEAN, call \in FolderCalls,
          io \in SessionIO : AddFolder(folder, exists, call, io)
    \/ \E folder \in UiFolders, exists \in BOOLEAN, call \in FolderCalls,
          io \in SessionIO : RemoveFolder(folder, exists, call, io)
    \/ SessionRestart

SpecSession == Init /\ [][NextSession]_vars

----------------------------------------------------------------------------
(* Properties of the index lifecycle (Spec).                               *)

Min(a, b) == IF a < b THEN a ELSE b

ErrorStatuses ==
    {"ERROR_INVALID_DIRECTORY", "NO_READABLE_DOCUMENTS", "ERROR_CHUNK_SPLITTING",
     "ERROR_CREATE_VECTORSTORE"}

KeyOf(path) == get_absolute_path(normalize_path(path))
IsDirectory(path, kind) == path /= "" /\ kind \in {"dir_empty", "dir_docs"}
Registered(key) == DictHas(retriever_registry, key)

(* C1, as claimed: every index_directory call without force_reindex on a   *)
(* path whose key is registered returns "already indexed" and leaves the   *)
(* registry, the persist-location map, the manifest and the stores as they *)
(* were.                                                                   *)
C1_Original ==
    [][(/\ last'.op = "index"
        /\ ~last'.force
        /\ last'.path /= ""
        /\ Registered(KeyOf(last'.path)))
       => (/\ last'.status = "INFO_ALREADY_INDEXED"
           /\ UNCHANGED <<retriever_registry, vectorstore_paths, manifest,
                          disk, nextDir>>)]_vars

(* C1, amended: index_directory without force_reindex on a path that is a  *)
(* directory and whose key is registered returns "already indexed",        *)
(* creates no store and changes nothing; after two such calls in a row the *)
(* key's retriever is the object that was registered before them.          *)
C1_IdempotentIndexing ==
    \A directory \in RawPaths, env1 \in IndexEnvs(FALSE), env2 \in IndexEnvs(FALSE) :
        LET key == KeyOf(directory)
            r1 == index_directory(Here, directory, FALSE, env1)
            r2 == index_directory(r1.S, directory, FALSE, env2)
        IN  (/\ Registered(key)
             /\ IsDirectory(directory, env1.kind)
             /\ IsDirectory(directory, env2.kind))
            => (/\ r1.status = "INFO_ALREADY_INDEXED"
                /\ r1.S = Here
                /\ r2.status = "INFO_ALREADY_INDEXED"
                /\ r2.S = Here
                /\ DictGet(r2.S.reg, key, NoRetriever)
                      = DictGet(retriever_registry, key, NoRetriever))

C1_Witness ==
    /\ last.op = "index"
    /\ ~last.force
    /\ last.status = "INFO_ALREADY_INDEXED"
    /\ Registered(KeyOf(last.path))
    /\ DictGet(vectorstore_paths, KeyOf(last.path), NoDir) \in disk

(* C2: when index_directory(path) has succeeded and the next call,         *)
(* index_directory(path, force_reindex=True), succeeds, the manifest holds *)
(* exactly one entry for the key, it maps to the new persist location, and *)
(* the previous persist location is no longer on disk.                     *)
C2_ForceReindexReplaces ==
    [][(/\ last.op = "index" /\ last.status = "OK_INDEXED"
        /\ last'.op = "index" /\ last'.force /\ last'.status = "OK_INDEXED"
        /\ KeyOf(last'.path) = KeyOf(last.path))
       => LET key == KeyOf(last'.path)
              old == DictGet(vectorstore_paths, key, NoDir)
              new == DictGet(vectorstore_paths', key, NoDir)
          IN  /\ Cardinality({i \in 1..Len(manifest') : manifest'[i].k = key}) = 1
              /\ DictGet(manifest', key, NoDir) = new
              /\ new /= old
              /\ new \in disk'
              /\ old \notin disk']_vars

(* C3: remove_directory removes the key from the manifest only when the    *)
(* persisted location is gone after the delete; when the location is still *)
(* there it keeps the manifest entry and returns a warning, not the        *)
(* success status.                                                         *)
C3_RemoveOnlyWhenDeleted ==
    [][last'.op = "remove"
       => LET key == KeyOf(last'.path)
              old == DictGet(vectorstore_paths, key, NoDir)
          IN  (old /= NoDir /\ old \in disk')
              => (/\ DictGet(manifest', key, NoDir) = DictGet(manifest, key, NoDir)
                  /\ last'.status /= "REMOVED_FOLDER_INDEX")]_vars

(* C4: after a startup bootstrap the registered keys are exactly the       *)
(* manifest's keys whose persist location loads, each with its location:   *)
(* N of N when all load, N-1 when one does not, whatever its place in the  *)
(* manifest.                                                               *)
Loadable == {i \in 1..Len(manifest) : load_vectorstore(Here, manifest[i].v)}

C4_BootstrapSkipsFailures ==
    last.op = "bootstrap"
    => (/\ Len(retriever_registry) = Cardinality(Loadable)
        /\ DictKeys(retriever_registry) = {manifest[i].k : i \in Loadable}
        /\ \A i \in Loadable :
              /\ DictGet(retriever_registry, manifest[i].k, NoRetriever)
                    = as_retriever(manifest[i].v)
              /\ DictGet(vectorstore_paths, manifest[i].k, NoDir) = manifest[i].v)

C4_Witness ==
    /\ last.op = "bootstrap"
    /\ Len(manifest) = 2
    /\ Loadable = {2}
    /\ Len(retriever_registry) = 1
    /\ retriever_registry[1].k = manifest[2].k

C6_InvalidPathNoEffect ==
    \A directory \in RawPaths, force_reindex \in BOOLEAN :
        \A env \in IndexEnvs(force_reindex) :
            LET r == index_directory(Here, directory, force_reindex, env)
            IN  (directory = "" \/ env.kind \in {"missing", "file"})
                => (/\ r.status = "ERROR_INVALID_DIRECTORY"
                    /\ r.S = Here)

C6_Witness ==
    /\ last.op = "index"
    /\ last.force
    /\ last.status = "ERROR_INVALID_DIRECTORY"
    /\ Registered(KeyOf(last.path))

(* C7: when the creation of the vector store fails in index_directory the  *)
(* partly created persist location is deleted, an error string is          *)
(* returned, no retriever is registered for the key and no manifest entry  *)
(* is written.                                                             *)
C7_FailedCreateLeavesNothing ==
    [][(last'.op = "index" /\ last'.status = "ERROR_CREATE_VECTORSTORE")
       => (/\ nextDir \notin disk'
           /\ ~DictHas(retriever_registry', KeyOf(last'.path))
           /\ manifest' = manifest)]_vars

----------------------------------------------------------------------------
(* Properties of the RetrievalService (SpecRetrieval).                     *)

(* C8: get_retriever resolves (1) an explicit key to that key's retriever  *)
(* whatever the current key is, (2) no argument and a registered current   *)
(* key to the current key's retriever, (3) no argument, no current key and *)
(* some registration to a registered retriever, (4) no registration to     *)
(* None.                                                                   *)
C8_ResolutionOrder ==
    /\ \A key \in AbsPaths :
          get_retriever(Service, key)
              = DictGet(retriever_registry, key, NoRetriever)
    /\ (current_folder /= NoKey /\ Registered(current_folder))
          => get_retriever(Service, NoKey)
                = DictGet(retriever_registry, current_folder, NoRetriever)
    /\ (current_folder = NoKey /\ Len(retriever_registry) > 0)
          => /\ get_retriever(Service, NoKey) \in DictValues(retriever_registry)
             /\ get_retriever(Service, NoKey) /= NoRetriever
    /\ Len(retriever_registry) = 0
          => \A arg \in KeyArgs : get_retriever(Service, arg) = NoRetriever

C8_Witness ==
    /\ answer.op = "get"
    /\ answer.arg = "/a"
    /\ current_folder = "/b"
    /\ Registered("/a")
    /\ Registered("/b")
    /\ DictGet(retriever_registry, "/a", NoRetriever)
          /= DictGet(retriever_registry, "/b", NoRetriever)
    /\ answer.out = DictGet(retriever_registry, "/a", NoRetriever)

(* C9: search (and the search_documents tool over it) never raises and     *)
(* never returns None: without registrations it returns a string with the  *)
(* "No indexed" marker, without a retriever for the key a string that says *)
(* so, and when the query raises a string with the error prefix.           *)
NoIndexedMarker == {"NO_INDEXED_FOLDER", "NO_INDEXED_KNOWLEDGE_BASE"}

C9_SearchNeverRaises ==
    \A k \in KValues, behaviour \in Behaviours :
        /\ \A arg \in KeyArgs :
              \A out \in {search(Service, QUERY, k, arg, behaviour)},
                 found \in {get_retriever(Service, arg) /= NoRetriever} :
                  /\ ~out.raised
                  /\ ~out.none
                  /\ Len(retriever_registry) = 0 => out.msg \in NoIndexedMarker
                  /\ (Len(retriever_registry) > 0 /\ ~found)
                        => out.msg = "NO_RETRIEVER_FOUND"
                  /\ (found /\ behaviour.raises) => out.msg = "SEARCH_ERROR"
        /\ \A out \in {search_documents(Service, QUERY, k, behaviour)} :
               /\ ~out.raised
               /\ ~out.none
               /\ Len(retriever_registry) = 0 => out.msg \in NoIndexedMarker

C9_Witness ==
    /\ answer.op = "search"
    /\ answer.out.msg = "SEARCH_ERROR"
    /\ ~answer.out.raised

(* C10, as claimed: a successful search(query, k) returns exactly          *)
(* min(k, n) results, n being the number of documents the retriever        *)
(* returned.                                                               *)
C10_Original ==
    (answer.op = "search" /\ answer.out.msg = "RESULTS")
    => Len(answer.out.results) = Min(answer.k, answer.n)

(* C10, amended: a successful search(query, k) returns min(k, n) results   *)
(* when k >= 0 and n + k results (the documents without the last -k) when  *)
(* k < 0; result i is the i-th document the retriever returned, labelled   *)
(* with its file name ("unknown" without one) and with the first 500       *)
(* characters of its content.                                              *)
C10_TopKInOrder ==
    \A k \in KValues, arg \in KeyArgs, behaviour \in Behaviours :
        \A out \in {search(Service, QUERY, k, arg, behaviour)} :
        LET docs == behaviour.docs
            n == Len(docs)
        IN  out.msg = "RESULTS"
            => /\ Len(out.results) = IF k >= 0 THEN Min(k, n) ELSE n + k
               /\ \A i \in 1..Len(out.results) :
                     /\ out.results[i].i = i
                     /\ out.results[i].fname
                           = (IF docs[i].file_name = NoKey
                              THEN "unknown" ELSE docs[i].file_name)
                     /\ out.results[i].content.txt = docs[i].page_content.txt
                     /\ out.results[i].content.len
                           = Min(docs[i].page_content.len, TRUNC)

C10_Witness ==
    /\ answer.op = "search"
    /\ answer.out.msg = "RESULTS"
    /\ answer.k = 1
    /\ answer.n = 2
    /\ Len(answer.out.results) = 1
    /\ answer.out.results[1].fname = "a.txt"
    /\ answer.out.results[1].content = Text("ta", TRUNC)

----------------------------------------------------------------------------
(* Properties of the agent graph (SpecGraph, FairGraph).                   *)

LastMessage(msgs) == msgs[Len(msgs)]
WorkerRan == node = "worker" /\ step' = step + 1
ToolsRan == node = "tools" /\ step' = step + 1
EvaluatorRan == node = "evaluator" /\ step' = step + 1

(* C11: when the worker node has run, the next node is tools if and only   *)
(* if the assistant message it appended carries at least one tool-call     *)
(* request, and evaluator otherwise.                                       *)
C11_WorkerRouting ==
    [][WorkerRan
       => (/\ LastMessage(messages').type = "ai"
           /\ node' \in {"tools", "evaluator"}
           /\ node' = "tools" <=> Len(LastMessage(messages').tool_calls) >= 1)]_vars

C11_Witness ==
    /\ node = "evaluator"
    /\ Len(LastMessage(messages).tool_calls) = 0
    /\ \E i \in 1..Len(messages) : messages[i].type = "tool"

(* C12: when the tools node runs after a worker message with n tool-call   *)
(* requests, it appends exactly n tool-result messages, the i-th answering *)
(* the i-th request, and the next node is worker.                          *)
C12_ToolResultsInOrder ==
    [][ToolsRan
       => LET calls == LastMessage(messages).tool_calls
              n == Len(calls)
          IN  /\ n >= 1
              /\ Len(messages') = Len(messages) + n
              /\ SubSeq(messages', 1, Len(messages)) = messages
              /\ \A i \in 1..n :
                    /\ messages'[Len(messages) + i].type = "tool"
                    /\ messages'[Len(messages) + i].tool_call_id = calls[i]
              /\ node' = "worker"]_vars

C12_Witness ==
    /\ node = "worker"
    /\ Len(messages) = 4
    /\ Len(messages[2].tool_calls) = 2
    /\ messages[3].tool_call_id = messages[2].tool_calls[1]
    /\ messages[4].tool_call_id = messages[2].tool_calls[2]
    /\ messages[3].tool_call_id /= messages[4].tool_call_id

(* C13: when the evaluator node has run, the next node is END if the       *)
(* evaluation reported success-criteria-met or user-input-needed and       *)
(* worker otherwise; END is entered from the evaluator only.               *)
C13_EvaluatorRouting ==
    [][/\ EvaluatorRan
          => LET reported == evaluator_llm_invoke(evaluator_llm)
             IN  node' = IF reported.success_criteria_met
                            \/ reported.user_input_needed
                         THEN "END" ELSE "worker"
       /\ (node' = "END" /\ node /= "END") => EvaluatorRan]_vars

C13_Witness ==
    /\ node = "END"
    /\ needs_user_input
    /\ ~criteria_met
    /\ evaluator_llm.calls = 2

(* The scripts of C14: the evaluator reports success at its first call and *)
(* the worker never requests a tool.                                       *)
SucceedsAtOnce ==
    /\ evaluator_llm.at = 1
    /\ evaluator_llm.met
    /\ \A i \in 1..Len(worker_llm.script) : worker_llm.script[i] = 0

(* C14, as claimed: such a run, once it has returned, has made one worker  *)
(* step and one evaluator step, is at END and has returned the worker's    *)
(* message content.                                                        *)
C14_Original ==
    (SucceedsAtOnce /\ result.kind = "return")
    => (/\ worker_llm.calls = 1
        /\ evaluator_llm.calls = 1
        /\ node = "END"
        /\ result.content = worker_llm.content)

(* C14, amended: such a run makes one worker step and one evaluator step,  *)
(* reaches END and returns the worker's message content when that content  *)
(* does not start with the thinking marker; a content that starts with the *)
(* marker is passed over like an evaluation message and the run, holding   *)
(* no other assistant message, returns "No response generated".            *)
C14_GraphTermination ==
    SucceedsAtOnce
    => <>[](/\ node = "END"
            /\ step = 2
            /\ worker_llm.calls = 1
            /\ evaluator_llm.calls = 1
            /\ result.kind = "return"
            /\ result.content = IF worker_llm.content.mark
                                THEN NoResponse
                                ELSE worker_llm.content)

C14_Witness ==
    /\ SucceedsAtOnce
    /\ node = "END"
    /\ worker_llm.calls = 1
    /\ evaluator_llm.calls = 1
    /\ result.kind = "return"
    /\ result.content = Content(FALSE, "answer")
    /\ LastMessage(messages).content = Content(TRUE, "Evaluation")

(* The scripts of C15: the evaluator never reports, or the worker requests *)
(* tools at every invocation.                                              *)
NeverEnds ==
    \/ evaluator_llm.at = 0
    \/ \A i \in 1..Len(worker_llm.script) : worker_llm.script[i] >= 1

(* C15, as claimed: with such scripts END is never reached and the cycle   *)
(* of worker, tools and evaluator goes on without bound: the run never     *)
(* stops.                                                                  *)
C15_Original ==
    NeverEnds => (node /= "END" /\ node /= "ERROR")

(* C15, amended: the graph counts no iterations; a run is at END only when *)
(* an evaluator step has reported success-criteria-met or                  *)
(* user-input-needed, and with scripts that never do so END is never       *)
(* reached: the cycle goes on until the recursion limit of the graph       *)
(* library stops the run with an error.                                    *)
C15_NoCapButRecursionLimit ==
    /\ [](node = "END"
          => (/\ criteria_met \/ needs_user_input
              /\ evaluator_llm.at >= 1
              /\ evaluator_llm.calls = evaluator_llm.at))
    /\ NeverEnds
          => (/\ [](node /= "END")
              /\ <>[](node = "ERROR" /\ step = RECURSION_LIMIT
                      /\ result.kind = "raise"))

C15_Witness ==
    /\ NeverEnds
    /\ node = "ERROR"
    /\ step = RECURSION_LIMIT
    /\ worker_llm.calls + evaluator_llm.calls >= RECURSION_LIMIT \div 2

----------------------------------------------------------------------------
(* Properties of a chat turn (SpecChat).                                   *)

(* The stored session of the user of the last chat call.                   *)
StoredSession ==
    IF chat_last.handler = "UIHandlers"
    THEN DictGet(handler_db, chat_last.username, <<>>)
    ELSE DictGet(service_db, <<chat_last.username, chat_last.key>>, <<>>)

(* C16: when the agent run raises during a chat turn, the exception does   *)
(* not escape the chat handler, and the stored session afterwards is the   *)
(* conversation before the turn followed by the user's message and exactly *)
(* one assistant error message.                                            *)
C16_FailedTurnIsStored ==
    chat_last.failed =>
        /\ ~chat_last.escaped
        /\ Len(StoredSession) = Len(chat_last.before) + 2
        /\ SubSeq(StoredSession, 1, Len(chat_last.before)) = chat_last.before
        /\ StoredSession[Len(StoredSession) - 1] = UserTurn(chat_last.prompt)
        /\ StoredSession[Len(StoredSession)].type = "ai"

----------------------------------------------------------------------------
(* Properties of the lazy initialisation (SpecSingleton).                  *)

(* The object the initialiser fn hands out.                                *)
Singleton(fn) == IF fn = "get_controller" THEN rt_controller ELSE ui_handlers

(* C17: under any interleaving of the callers of get_controller and of the *)
(* callers of ensure_initialized, init_sidekick completes at most once for *)
(* each of them, and every caller that returns receives the same instance, *)
(* the first and only one constructed.                                     *)
C17_InitialisedOnce ==
    /\ \A fn \in Initialisers : init_calls[fn].completed <= 1
    /\ \A p \in Callers :
          callers[p].pc = "done" /\ callers[p].got /= Raised =>
              /\ callers[p].got = 1
              /\ Singleton(callers[p].fn) = 1

(* Two callers of the same initialiser have returned with the instance,    *)
(* one of them after waiting for the lock.                                 *)
C17_Witness ==
    \E p, q \in Callers :
        /\ p /= q
        /\ callers[p].pc = "done" /\ callers[q].pc = "done"
        /\ callers[p].fn = callers[q].fn
        /\ callers[p].got = 1 /\ callers[q].got = 1
        /\ callers[q].waited

----------------------------------------------------------------------------
(* Properties of delete_dir_verified (SpecDelete, FairDelete).             *)

Returned == deletion.pc = "done"

(* C18: delete_dir_verified returns (True, None) only if the directory     *)
(* does not exist when it returns; for a directory that does not exist on  *)
(* entry it returns (True, None) without any deletion attempt; every other *)
(* outcome is False with a non-empty error message.                        *)
C18_VerifiedResult ==
    Returned =>
        /\ deletion.ret = <<TRUE, NoKey>> => ~dir_exists
        /\ ~deletion.existed =>
              /\ deletion.ret = <<TRUE, NoKey>>
              /\ deletion.rmtree_calls = 0
              /\ deletion.force_calls = 0
        /\ deletion.ret /= <<TRUE, NoKey>> =>
              /\ deletion.ret[1] = FALSE
              /\ TruthyStr(deletion.ret[2])

(* A directory that existed was reported deleted by the manual removal,    *)
(* after the attempts had left it in place.                                *)
C18_Witness ==
    /\ Returned
    /\ deletion.existed
    /\ deletion.retries >= 1
    /\ deletion.force_calls = 1
    /\ deletion.ret = <<TRUE, NoKey>>
    /\ ~dir_exists

(* The counts of a call: at most retries recursive deletes, at most one    *)
(* manual removal and that only after retries attempts that all left the   *)
(* directory in place, failure only after a manual removal that failed.    *)
BoundedAttempts ==
    /\ deletion.rmtree_calls <= deletion.retries
    /\ deletion.force_calls <= 1
    /\ deletion.force_calls = 1 =>
          /\ deletion.failed_attempts = deletion.retries
          /\ deletion.rmtree_calls = deletion.retries
    /\ Returned /\ deletion.ret[1] = FALSE =>
          /\ deletion.force_calls = 1
          /\ dir_exists

(* C19: delete_dir_verified always terminates, after at most retries       *)
(* recursive-delete attempts followed by at most one manual removal; the   *)
(* manual removal is attempted only after every one of the retries         *)
(* attempts left the directory in place, and failure is reported only      *)
(* after the manual removal failed too.                                    *)
C19_BoundedRetriesThenFallback ==
    /\ []BoundedAttempts
    /\ (deletion.pc = "loop") ~> Returned

(* A call has failed after all its attempts and the manual removal.        *)
C19_Witness ==
    /\ Returned
    /\ deletion.retries >= 2
    /\ deletion.rmtree_calls = deletion.retries
    /\ deletion.force_calls = 1
    /\ deletion.ret[1] = FALSE

----------------------------------------------------------------------------
(* Properties of Sidekick.run (SpecRun).                                   *)

(* The tools whose tag is among the enabled groups; all tools when the     *)
(* request is None.                                                        *)
EnabledByTag(enabled_tools) ==
    IF enabled_tools.none
    THEN build_all_tools
    ELSE {t \in build_all_tools : enabled_tools.groups \cap t.tags /= {}}

(* C20: the graph a run invokes is bound to exactly the tools whose tag    *)
(* intersects the enabled groups of its caller (all tools when             *)
(* enabled_tools is None), for each run under any interleaving of runs     *)
(* that ask for different tools.                                           *)
C20_RunBoundToEnabledTools ==
    \A p \in Callers :
        runs[p].pc \in {"invoking", "done"} =>
            /\ runs[p].graph.built
            /\ runs[p].graph.tools = EnabledByTag(runs[p].enabled_tools)

(* The cached and the stored messages of the session of the last chat call *)
(* of UIController.                                                        *)
CachedSession ==
    DictGet(service_sessions, <<chat_last.username, chat_last.key>>, <<>>)

HoldsUserText(msgs, text) ==
    \E i \in 1..Len(msgs) : msgs[i].type = "human" /\ msgs[i].content.text = text

(* C21: after a chat turn of UIController with the python tool group       *)
(* enabled, the session state in the cache and in the store holds the      *)
(* original prompt and no user message whose content is the injected       *)
(* prompt.                                                                 *)
C21_ReminderNeverStored ==
    (/\ chat_last.handler = "UIController"
     /\ chat_last.username /= ""
     /\ strip(chat_last.prompt) /= ""
     /\ \E i \in 1..Len(chat_last.enabled_tools) :
            chat_last.enabled_tools[i] = "python")
    => \A msgs \in {CachedSession, StoredSession} :
          /\ HoldsUserText(msgs, chat_last.prompt)
          /\ ~HoldsUserText(msgs, IMPORTANT_PYTHON_PRINT_REMINDER(chat_last.prompt))

(* The string a chat call reported: the text it returned or, for the       *)
(* single assistant message UIController.chat returns on an error, the     *)
(* content of that message.                                                *)
ReportedText ==
    IF chat_last.text /= ""
    THEN chat_last.text
    ELSE IF Len(chat_last.returned) = 1
            /\ chat_last.returned[1].role = "assistant"
    THEN chat_last.returned[1].content
    ELSE ""

(* The session of the last chat call, in the handler that served it.       *)
LastSession ==
    IF chat_last.handler = "UIHandlers"
    THEN SessionMessages(Handlers, chat_last.username)
    ELSE SessionMessages(Services, <<chat_last.username, chat_last.key>>)

(* C22: a chat call with an empty or whitespace-only prompt raises nothing *)
(* past the chat handler, reports a descriptive (non-empty) string to its  *)
(* caller and leaves the message sequence of the session as it was.        *)
C22_EmptyPromptReported ==
    (/\ chat_last.handler \in {"UIHandlers", "UIController"}
     /\ chat_last.username /= ""
     /\ strip(chat_last.prompt) = "")
    => /\ ~chat_last.escaped
       /\ ReportedText /= ""
       /\ LastSession = chat_last.was
       /\ StoredSession = chat_last.stored

----------------------------------------------------------------------------
(* Properties of the thread of a run (SpecThread).                         *)

(* A message of an earlier run that asks for tool calls nobody answered.   *)
PendingToolCalls(msgs) ==
    /\ Len(msgs) > 0
    /\ msgs[Len(msgs)].type = "ai"
    /\ Len(msgs[Len(msgs)].tool_calls) > 0

----------------------------------------------------------------------------
(* Properties of the index key (SpecKey).                                  *)

KeyCalls == {key_calls[i] : i \in 1..Len(key_calls)}

(* C25: the index key is a function of the path and of whether the path is *)
(* a file: two computations for the same path of the same kind give the    *)
(* same key, the key of a file is "FILE::" followed by its absolute path,  *)
(* and it differs from the key of every directory, the directory at the    *)
(* same absolute path included.                                            *)
C25_IndexKeyOfPath ==
    \A c, d \in KeyCalls :
        /\ (c.fn = d.fn /\ c.path = d.path /\ (c.kind = "file") = (d.kind = "file"))
               => c.key = d.key
        /\ (c.fn = "_make_index_key" /\ c.kind = "file")
               => /\ c.key = "FILE::" \o c.abs
                  /\ d.kind = "dir" => c.key /= d.key

(* The key of a file is followed by the key of the directory that took its *)
(* place at the same absolute path.                                        *)
C25_Witness ==
    /\ Len(key_calls) = 2
    /\ key_calls[1].fn = "_make_index_key"
    /\ key_calls[1].kind = "file"
    /\ key_calls[2].kind = "dir"
    /\ key_calls[2].abs = key_calls[1].abs
    /\ key_calls[2].key /= key_calls[1].key

(* C25 as stated: the key is a function of the path alone (two             *)
(* computations for the same path give the same key), and the key of a     *)
(* file is "FILE::" followed by its absolute path and differs from the key *)
(* of every directory.                                                     *)
C25_SamePathSameKey ==
    \A c, d \in KeyCalls :
        /\ (c.fn = d.fn /\ c.path = d.path) => c.key = d.key
        /\ (c.fn = "_make_index_key" /\ c.kind = "file")
               => /\ c.key = "FILE::" \o c.abs
                  /\ d.kind = "dir" => c.key /= d.key

----------------------------------------------------------------------------
(* Properties of the manifest (Spec).                                      *)

(* C26: after the startup bootstrap and after every index_directory or     *)
(* remove_directory call that returns, every key registered in the         *)
(* RetrievalService has a manifest entry that maps to the persist location *)
(* of the registration.                                                    *)
C26_RegisteredKeysInManifest ==
    last.op \in {"bootstrap", "index", "remove"}
    => \A i \in 1..Len(vectorstore_paths) :
          /\ DictHas(retriever_registry, vectorstore_paths[i].k)
          /\ DictHas(manifest, vectorstore_paths[i].k)
          /\ DictGet(manifest, vectorstore_paths[i].k, NoDir) = vectorstore_paths[i].v

(* C27: after any sequence of index_directory, remove_directory and        *)
(* cleanup calls, every manifest entry maps to a persist location that     *)
(* exists on disk.                                                         *)
C27_ManifestLocationsExist ==
    \A i \in 1..Len(manifest) : manifest[i].v \in disk

----------------------------------------------------------------------------
(* Properties of concurrent indexing (SpecIndexing).                       *)

Succeeded(p) == indexers[p].pc = "done" /\ indexers[p].status = "OK_INDEXED"

(* C28: when two index_directory calls on two different keys have run in   *)
(* two worker threads and both have returned success, the manifest holds   *)
(* both keys.                                                              *)
C28_NoLostManifestUpdate ==
    \A p, q \in Callers :
        (/\ p /= q
         /\ Succeeded(p)
         /\ Succeeded(q)
         /\ indexers[p].key /= indexers[q].key)
        => /\ DictHas(manifest, indexers[p].key)
           /\ DictHas(manifest, indexers[q].key)

(* The persist locations on disk that no registration and no manifest      *)
(* entry names.                                                            *)
Orphans == disk \ (DictValues(vectorstore_paths) \cup DictValues(manifest))

(* C29: when two index_directory calls without force_reindex on the same   *)
(* key have returned, one of them at most has created a vector store, and  *)
(* once no call is running every persist location on disk is registered or *)
(* recorded in the manifest.                                               *)
C29_SameKeySerialized ==
    \A p, q \in Callers :
        (/\ p /= q
         /\ indexers[p].pc = "done"
         /\ indexers[q].pc = "done"
         /\ ~indexers[p].force
         /\ ~indexers[q].force
         /\ indexers[p].key = indexers[q].key
         /\ Succeeded(p))
        => /\ indexers[q].persist_dir = NoDir
           /\ Orphans = {}

----------------------------------------------------------------------------
(* Properties of the active folder (SpecFolder).                           *)

C31_UnregisteredCurrentKey ==
    (/\ TruthyStr(current_folder)
     /\ ~Registered(current_folder)
     /\ Len(retriever_registry) > 0)
    => /\ get_retriever(Service, NoKey) = NoRetriever
       /\ \A k \in KValues, behaviour \in Behaviours :
             search(Service, QUERY, k, NoKey, behaviour).msg
                = "NO_RETRIEVER_FOUND"

(* C32: during a forced reindex of a registered key the old retriever is   *)
(* unregistered first, then the old persist location is deleted, and only  *)
(* then is the new store created and registered; the deletion of the old   *)
(* location never starts while the key is still registered.                *)
ReindexOrder == <<"unregister", "delete", "create", "register">>

Rank(event) == CHOOSE i \in 1..Len(ReindexOrder) : ReindexOrder[i] = event

ForcedOnRegistered == reindex.force /\ reindex.was

C32_UnregisterDeleteCreate ==
    ForcedOnRegistered
    => /\ \A i, j \in 1..Len(reindex.log) :
             i < j => Rank(reindex.log[i]) < Rank(reindex.log[j])
       /\ reindex.pc \in {"delete", "rmtree"}
             => ~has_retriever(reindex.S, reindex.key)
       /\ (Len(reindex.log) > 0 /\ reindex.log[1] /= "unregister")
             => ~has_retriever(reindex.S, reindex.key)

(* The same for index_directory of src/core/sidekick.py alone.             *)
ReindexOrderOfIndexDirectory ==
    reindex.impl = "index_directory" => C32_UnregisterDeleteCreate

ReindexOrderReached ==
    /\ reindex.impl = "index_directory"
    /\ ForcedOnRegistered
    /\ reindex.log = ReindexOrder
    /\ reindex.prev \notin reindex.S.disk
    /\ reindex.new \in reindex.S.disk
    /\ DictGet(reindex.S.paths, reindex.key, NoDir) = reindex.new

(* C33: each evaluator step adds one record, the structured result with a  *)
(* timestamp, to the evaluation history: when the evaluator has executed n *)
(* times in a run, the history holds those n records in execution order.   *)
C33_OneRecordPerEvaluation ==
    /\ Len(evaluation_history) = evaluator_llm.calls
    /\ \A i \in 1..Len(evaluation_history) :
          evaluation_history[i]
             = evaluator_node([evaluator_llm EXCEPT !.calls = i - 1])
                  .evaluation_history[1]

(* C34: within one run the message sequence is append-only: every node     *)
(* step keeps the messages already present, unchanged and in place, as a   *)
(* prefix; the worker step appends exactly one assistant message and the   *)
(* evaluator step appends exactly one evaluation-tagged assistant message. *)
NodeRan == WorkerRan \/ ToolsRan \/ EvaluatorRan

Appended == SubSeq(messages', Len(messages) + 1, Len(messages'))

C34_MessagesAppendOnly ==
    [][/\ NodeRan
          => /\ Len(messages') >= Len(messages)
             /\ SubSeq(messages', 1, Len(messages)) = messages
       /\ WorkerRan
          => /\ Len(Appended) = 1
             /\ Appended[1].type = "ai"
       /\ EvaluatorRan
          => /\ Len(Appended) = 1
             /\ Appended[1].type = "ai"
             /\ Appended[1].content.mark
             /\ Appended[1].content.text = "Evaluation"
       /\ ~NodeRan => messages' = messages]_vars

C34_Witness ==
    /\ node = "END"
    /\ evaluator_llm.calls = 2
    /\ messages[1].type = "human"
    /\ messages[2].type = "ai" /\ Len(messages[2].tool_calls) = 1
    /\ messages[3].type = "tool"
    /\ messages[4].type = "ai" /\ ~messages[4].content.mark
    /\ messages[5].content = Content(TRUE, "Evaluation")
    /\ messages[6].type = "ai"
    /\ LastMessage(messages).content = Content(TRUE, "Evaluation")
    /\ Len(messages) > 6

(* C35: the graph of build_graph (src/graph_builder.py) takes the          *)
(* transitions of the reference graph in every state: out of worker it     *)
(* chooses tools exactly when the last message has a non-empty tool-call   *)
(* list, as should_continue does, so that a worker message without tool    *)
(* calls reaches evaluator; out of evaluator it chooses as should_end.     *)
AfterWorker == node \in {"tools", "evaluator"}

C35_BuildGraphSameTransitions ==
    /\ AfterWorker
          => /\ build_graph_after_worker(messages) = should_continue(messages)
             /\ build_graph_after_worker(messages) = "tools"
                   <=> Len(LastMessage(messages).tool_calls) > 0
    /\ build_graph_after_evaluator(criteria_met, needs_user_input)
          = should_end(criteria_met, needs_user_input)

(* C36: when add_folder or remove_folder fails (it returns an "Error:"     *)
(* status because indexing or clearing raised), the folder list a later    *)
(* get_folders returns is the list before the call, and a repeated         *)
(* add_folder of the same folder is attempted again, not answered with     *)
(* "Folder already exists".                                                *)
FolderCallFailed ==
    /\ session_last.op \in {"add_folder", "remove_folder"}
    /\ session_last.status = "Error"

C36_FailedCallKeepsFolders ==
    FolderCallFailed
    => /\ get_folders(Sessions) = session_last.before
       /\ session_last.op = "add_folder"
             => \A exists \in BOOLEAN, call \in FolderCalls, io \in SessionIO :
                   add_folder(Sessions, session_last.folder, exists, call, io)
                      .status /= "Folder already exists"

(* C37: the thread identifier is stable across persistence: a state saved  *)
(* with SessionRepository.save and loaded back for the same (username,     *)
(* folder) has the thread identifier it was saved with, also after a       *)
(* restart of the process.                                                 *)
SavedAndHeld ==
    /\ Cached(Sessions)
    /\ global_row /= NoRow
    /\ session_last.saved_thread /= 0

C37_ThreadIdSurvivesSave ==
    SavedAndHeld => global_session.thread_id = session_last.saved_thread

(* C38: after any sequence of register_retriever, unregister_retriever and *)
(* clear calls retriever_registry and vectorstore_paths have the same key  *)
(* set; register_retriever overwrites the prior registration of the key    *)
(* (last writer wins); register and unregister of one key leave the        *)
(* registration of every other key unchanged; clear leaves no registration *)
(* and no current key.                                                     *)
SameRegistration(key) ==
    /\ DictHas(retriever_registry', key) <=> DictHas(retriever_registry, key)
    /\ DictHas(vectorstore_paths', key) <=> DictHas(vectorstore_paths, key)
    /\ DictGet(retriever_registry', key, NoRetriever)
          = DictGet(retriever_registry, key, NoRetriever)
    /\ DictGet(vectorstore_paths', key, NoDir)
          = DictGet(vectorstore_paths, key, NoDir)

OthersUnchanged(key) == \A other \in AbsPaths \ {key} : SameRegistration(other)

C38_RegistryConsistent ==
    /\ [](DictKeys(retriever_registry) = DictKeys(vectorstore_paths))
    /\ [][/\ \A key \in AbsPaths, persist_dir \in Dirs :
                RegisterRetriever(key, persist_dir)
                => /\ DictHas(retriever_registry', key)
                   /\ DictGet(retriever_registry', key, NoRetriever)
                         = as_retriever(persist_dir)
                   /\ DictGet(vectorstore_paths', key, NoDir) = persist_dir
                   /\ OthersUnchanged(key)
          /\ \A key \in AbsPaths :
                UnregisterRetriever(key)
                => /\ ~DictHas(retriever_registry', key)
                   /\ ~DictHas(vectorstore_paths', key)
                   /\ OthersUnchanged(key)
          /\ Clear
                => /\ retriever_registry' = <<>>
                   /\ vectorstore_paths' = <<>>
                   /\ current_folder' = NoKey]_vars

(* The key "/a" was registered before "/b" and has been registered again,  *)
(* at another location.                                                    *)
C38_Witness ==
    /\ answer.op = "register"
    /\ answer.arg = "/a"
    /\ Len(retriever_registry) = 2
    /\ retriever_registry[1].k = "/a"
    /\ retriever_registry[2].k = "/b"
    /\ retriever_registry[1].v = as_retriever(2)
    /\ vectorstore_paths[1] = [k |-> "/a", v |-> 2]
    /\ vectorstore_paths[2] = [k |-> "/b", v |-> 1]

====
